---- MODULE Spec2Model ----
(***************************************************************************)
(* Matter Gateway: device kinds (devices/*.py), the registry               *)
(* (core/gateway.py), the JSON persistence store (core/persistence.py),    *)
(* the upstream streaming listener (core/larnitech_ws_listener.py) and the *)
(* websocket fan-out and command channel (api/websocket_api.py), and the    *)
(* upstream request client (core/larnitech_client.py).                     *)
(*                                                                         *)
(* The specifications share the variables:                                 *)
(*   Spec      registry + persistence + sensor ticks + listener + crashes  *)
(*   SpecPair  the same with two devices and two clients                   *)
(*   SpecWrite one device driven by write_state calls                      *)
(*   SpecFan   ConnectionManager and the broadcast tasks                   *)
(*   SpecRestore   one device: writes, restart, restore at registration    *)
(*   SpecDash      a client's set commands feeding the broadcast tasks     *)
(*   SpecClient    the upstream request client and its retries             *)
(*   SpecListener  the listener's connect / receive / reconnect loop;      *)
(*                 SpecListenerLive adds fairness of its timer and steps   *)
(*   SpecChannel   the command channel of one dashboard client             *)
(*   SpecRegister  registration over state files written by other hands    *)
(*   SpecBare      a gateway constructed with or without a broadcaster     *)
(*   SpecStartup   devices loaded from a configuration, one auto_update    *)
(*                 task per configured sensor                              *)
(*   SpecReplica   a dashboard that lists once and then applies the events *)
(*   SpecOthers    two names written by client, ticks and upstream events  *)
(*   SpecLoops     one sensor's auto_update task, failing file/broadcaster *)
(*   SpecRead      a caller changing the mapping read_state() returned     *)
(*   SpecShutdown  the background tasks and shutdown_event;                *)
(*                 SpecShutdownLive adds fairness of the event loop        *)
(***************************************************************************)
EXTENDS Integers, Sequences, FiniteSets, TLC

\* ------------------------------------------------------------------ bounds
\* Update events issued in one behaviour of SpecFan.
MaxMsgs == 3

\* ------------------------------------------------- program constants
\* larnitech_client: attempts per request (LARNITECH_RETRIES, default)
MAX_RETRIES == 3
\* larnitech_ws_listener: seconds slept before reconnecting (default)
RECONNECT_DELAY == 10
BrightnessMin == 0
BrightnessMax == 100
SetpointMin == 10
SetpointMax == 30
HumidityMin == 0
HumidityMax == 100
LuxMin == 0
LuxMax == 10000
\* temperature tick: clamp to 20.0 .. 30.0, step at most 0.5
TempTickMin == 20
TempTickMax == 30
\* humidity tick: uniform(20.0, 90.0); lux tick: uniform(0.0, 1000.0)
HumTickMin == 20
HumTickMax == 90
LuxTickMax == 1000

\* ------------------------------------------------------------------ values
\* A Python / JSON scalar.  Floats are kept in tenths (n = 10 * x); the one
\* non-finite float that float("nan") yields is s = "nan".
Val(t, n, s) == [t |-> t, n |-> n, s |-> s]
B(b) == Val("bool", IF b THEN 1 ELSE 0, "")
I(n) == Val("int", n, "")
F(tenths) == Val("float", tenths, "")
NaN == Val("float", 0, "nan")
S(s) == Val("str", 0, s)
Null == Val("null", 0, "")

IsBool(v) == v.t = "bool"
IsStr(v) == v.t = "str"
IsNaN(v) == v.t = "float" /\ v.s = "nan"

\* Values a caller hands to write / setAttribute / the upstream stream.
InVals == { B(TRUE), B(FALSE), I(-1), I(0), I(1), I(20), I(75), I(100), I(101),
            F(205), F(-5), S("HEAT"), S("Auto"), S("cool"), S("75"), S("abc"),
            S("nan"), Null }

Attrs == { "power", "brightness", "mode", "setpoint", "temperature",
           "humidity", "lux", "leak", "value", "bogus" }

\* decimal strings that int() / float() parse, among the strings above
StrDigits(s) == IF s = "75" THEN 75 ELSE -1
IsDigits(s) == s = "75"

\* str.lower()
Lower(s) == IF s = "HEAT" THEN "heat" ELSE IF s = "Auto" THEN "auto" ELSE s

\* truncation toward zero, as int(float) does
Trunc10(t) == IF t >= 0 THEN t \div 10 ELSE -((-t) \div 10)

\* int(value): [ok, n]; ok = FALSE stands for the exception int() raises
PyInt(v) ==
  CASE v.t = "bool"  -> [ok |-> TRUE, n |-> v.n]
    [] v.t = "int"   -> [ok |-> TRUE, n |-> v.n]
    [] v.t = "float" -> IF IsNaN(v) THEN [ok |-> FALSE, n |-> 0]
                        ELSE [ok |-> TRUE, n |-> Trunc10(v.n)]
    [] v.t = "str"   -> IF IsDigits(v.s) THEN [ok |-> TRUE, n |-> StrDigits(v.s)]
                        ELSE [ok |-> FALSE, n |-> 0]
    [] OTHER         -> [ok |-> FALSE, n |-> 0]

\* float(value): [ok, f]; ok = FALSE stands for the exception float() raises
PyFloat(v) ==
  CASE v.t = "bool"  -> [ok |-> TRUE, f |-> F(10 * v.n)]
    [] v.t = "int"   -> [ok |-> TRUE, f |-> F(10 * v.n)]
    [] v.t = "float" -> [ok |-> TRUE, f |-> v]
    [] v.t = "str"   -> IF IsDigits(v.s) THEN [ok |-> TRUE, f |-> F(10 * StrDigits(v.s))]
                        ELSE IF v.s = "nan" THEN [ok |-> TRUE, f |-> NaN]
                        ELSE [ok |-> FALSE, f |-> Null]
    [] OTHER         -> [ok |-> FALSE, f |-> Null]

\* lo <= f <= hi on floats: every comparison with NaN is false
FloatBetween(f, lo, hi) == ~IsNaN(f) /\ 10 * lo <= f.n /\ f.n <= 10 * hi

\* ----------------------------------------------------------------- devices
Kinds == { "lamp", "dimmer", "thermostat", "temperature_sensor",
           "humidity_sensor", "light_sensor", "leak_sensor" }
SensorKinds == { "temperature_sensor", "humidity_sensor", "light_sensor",
                 "leak_sensor" }

EmptyState == [a \in {} |-> Null]

\* self.state as each constructor sets it
DefaultState(kind) ==
  CASE kind = "lamp"               -> [a \in {"power"} |-> B(FALSE)]
    [] kind = "dimmer"             -> [a \in {"power", "brightness"} |->
                                         IF a = "power" THEN B(FALSE) ELSE I(0)]
    [] kind = "thermostat"         -> [a \in {"mode", "setpoint"} |->
                                         IF a = "mode" THEN S("auto") ELSE I(24)]
    [] kind = "temperature_sensor" -> [a \in {"temperature"} |-> F(250)]
    [] kind = "humidity_sensor"    -> [a \in {"humidity"} |-> F(500)]
    [] kind = "light_sensor"       -> [a \in {"lux"} |-> F(3000)]
    [] kind = "leak_sensor"        -> [a \in {"leak"} |-> B(FALSE)]
    [] OTHER                       -> EmptyState

DeclaredAttrs(kind) == DOMAIN DefaultState(kind)

\* state[attr] = v
Put(state, attr, v) == [a \in (DOMAIN state) \cup {attr} |->
                          IF a = attr THEN v ELSE state[a]]

Accept(state) == [ok |-> TRUE, state |-> state]
Reject(state) == [ok |-> FALSE, state |-> state]

OnOffLampWrite(state, attr, v) ==
  IF attr = "power" /\ IsBool(v) THEN Accept(Put(state, "power", v))
  ELSE Reject(state)

\* variant: brightness assigned before the range test
DimmerWriteEager(state, attr, v) ==
  IF attr = "power"
  THEN IF ~IsBool(v) THEN Reject(state) ELSE Accept(Put(state, "power", v))
  ELSE IF attr = "brightness"
  THEN IF IsBool(v) \/ ~PyInt(v).ok THEN Reject(state)
       ELSE LET brightness == PyInt(v).n
                s1 == Put(state, "brightness", I(brightness))
            IN  IF BrightnessMin <= brightness /\ brightness <= BrightnessMax
                THEN IF brightness > 0 THEN Accept(Put(s1, "power", B(TRUE)))
                     ELSE Accept(s1)
                ELSE Reject(s1)
  ELSE Reject(state)

\* variant: a positive brightness does not turn the device on
DimmerWriteNoAutoOn(state, attr, v) ==
  IF attr = "power"
  THEN IF ~IsBool(v) THEN Reject(state) ELSE Accept(Put(state, "power", v))
  ELSE IF attr = "brightness"
  THEN IF IsBool(v) \/ ~PyInt(v).ok THEN Reject(state)
       ELSE LET brightness == PyInt(v).n
            IN  IF BrightnessMin <= brightness /\ brightness <= BrightnessMax
                THEN Accept(Put(state, "brightness", I(brightness)))
                ELSE Reject(state)
  ELSE Reject(state)

DimmerWrite(state, attr, v) ==
  IF attr = "power"
  THEN IF ~IsBool(v) THEN Reject(state) ELSE Accept(Put(state, "power", v))
  ELSE IF attr = "brightness"
  THEN IF IsBool(v) \/ ~PyInt(v).ok THEN Reject(state)
       ELSE LET brightness == PyInt(v).n
                s1 == Put(state, "brightness", I(brightness))
            IN  IF BrightnessMin <= brightness /\ brightness <= BrightnessMax
                THEN IF brightness > 0 THEN Accept(Put(s1, "power", B(TRUE)))
                     ELSE Accept(s1)
                ELSE Reject(state)
  ELSE Reject(state)

\* variant: the mode is stored as given
ThermostatWriteKeepsCase(state, attr, v) ==
  IF attr = "mode"
  THEN IF IsStr(v) /\ Lower(v.s) \in {"heat", "cool", "auto"}
       THEN Accept(Put(state, "mode", v))
       ELSE Reject(state)
  ELSE IF attr = "setpoint"
  THEN IF ~PyInt(v).ok THEN Reject(state)
       ELSE LET set_temp == PyInt(v).n
            IN  IF SetpointMin <= set_temp /\ set_temp <= SetpointMax
                THEN Accept(Put(state, "setpoint", I(set_temp)))
                ELSE Reject(state)
  ELSE Reject(state)

ThermostatWrite(state, attr, v) ==
  IF attr = "mode"
  THEN IF IsStr(v) /\ Lower(v.s) \in {"heat", "cool", "auto"}
       THEN Accept(Put(state, "mode", S(Lower(v.s))))
       ELSE Reject(state)
  ELSE IF attr = "setpoint"
  THEN IF ~PyInt(v).ok THEN Reject(state)
       ELSE LET set_temp == PyInt(v).n
            IN  IF SetpointMin <= set_temp /\ set_temp <= SetpointMax
                THEN Accept(Put(state, "setpoint", I(set_temp)))
                ELSE Reject(state)
  ELSE Reject(state)

TemperatureSensorWrite(state, attr, v) ==
  IF attr = "temperature" /\ PyFloat(v).ok
  THEN Accept(Put(state, "temperature", PyFloat(v).f))
  ELSE Reject(state)

\* variant: no range test
HumiditySensorWriteNoRange(state, attr, v) ==
  IF attr = "humidity" /\ PyFloat(v).ok
  THEN Accept(Put(state, "humidity", PyFloat(v).f))
  ELSE Reject(state)

HumiditySensorWrite(state, attr, v) ==
  IF attr = "humidity" /\ PyFloat(v).ok
     /\ FloatBetween(PyFloat(v).f, HumidityMin, HumidityMax)
  THEN Accept(Put(state, "humidity", PyFloat(v).f))
  ELSE Reject(state)

LightSensorWrite(state, attr, v) ==
  IF attr = "lux" /\ PyFloat(v).ok /\ FloatBetween(PyFloat(v).f, LuxMin, LuxMax)
  THEN Accept(Put(state, "lux", PyFloat(v).f))
  ELSE Reject(state)

\* variant: the sensor takes no manual override
LeakSensorWriteReadOnly(state, attr, v) == Reject(state)

LeakSensorWrite(state, attr, v) ==
  IF attr = "leak" /\ IsBool(v) THEN Accept(Put(state, "leak", v))
  ELSE Reject(state)

\* device.write_state(attribute, value), dispatched on the device class
WriteState(kind, state, attr, v) ==
  CASE kind = "lamp"               -> OnOffLampWrite(state, attr, v)
    [] kind = "dimmer"             -> DimmerWrite(state, attr, v)
    [] kind = "thermostat"         -> ThermostatWrite(state, attr, v)
    [] kind = "temperature_sensor" -> TemperatureSensorWrite(state, attr, v)
    [] kind = "humidity_sensor"    -> HumiditySensorWrite(state, attr, v)
    [] kind = "light_sensor"       -> LightSensorWrite(state, attr, v)
    [] kind = "leak_sensor"        -> LeakSensorWrite(state, attr, v)
    [] OTHER                       -> Reject(state)

\* device.read_state()
ReadState(dev) == dev.state

\* ------------------------------------------------------------- persistence
\* json.dump / json.load of one scalar.  A JSON token is a literal, a number
\* text (integer or with a fraction digit) or a string.
Tok(k, n, s) == [k |-> k, n |-> n, s |-> s]
JsonDump(v) ==
  CASE v.t = "bool"  -> Tok(IF v.n = 1 THEN "true" ELSE "false", 0, "")
    [] v.t = "int"   -> Tok("integer", v.n, "")
    [] v.t = "float" -> IF IsNaN(v) THEN Tok("NaN", 0, "") ELSE Tok("real", v.n, "")
    [] v.t = "str"   -> Tok("string", 0, v.s)
    [] OTHER         -> Tok("null", 0, "")
JsonLoad(j) ==
  CASE j.k = "true"    -> B(TRUE)
    [] j.k = "false"   -> B(FALSE)
    [] j.k = "integer" -> I(j.n)
    [] j.k = "real"    -> F(j.n)
    [] j.k = "NaN"     -> NaN
    [] j.k = "string"  -> S(j.s)
    [] OTHER           -> Null

DumpState(state) == [a \in DOMAIN state |-> JsonDump(state[a])]
LoadState(entry) == [a \in DOMAIN entry |-> JsonLoad(entry[a])]

EmptyMap == [n \in {} |-> EmptyState]

\* The backing file devices_state.json: absent, zero bytes, a cut-off JSON
\* text, text that is not JSON, a JSON value that is not an object, or an
\* object name -> {attr: token}.
FileOf(kind, map) == [kind |-> kind, map |-> map]
FileMissing == FileOf("missing", EmptyMap)
FileEmpty == FileOf("empty", EmptyMap)
FilePartial == FileOf("partial", EmptyMap)
FileCorrupt == FileOf("corrupt", EmptyMap)
FileNonMap == FileOf("nonmap", EmptyMap)

\* json.dump(data, f): the complete text of a mapping
DumpAll(data) == FileOf("map", [n \in DOMAIN data |-> DumpState(data[n])])

\* Persistence._ensure_file
EnsureFile(f) == IF f.kind = "missing" THEN DumpAll(EmptyMap) ELSE f

\* Persistence.load_all: open() raises when the file is absent; a
\* JSONDecodeError and a non-dict value both give {}.
LoadAll(f) ==
  [ raised |-> f.kind = "missing",
    data   |-> IF f.kind = "map" THEN [n \in DOMAIN f.map |-> LoadState(f.map[n])]
               ELSE EmptyMap ]

\* variant: the mapping saved holds the written device's entry only
PutEntryAlone(data, name, state) == [n \in {name} |-> state]

\* variant: an entry already in the mapping is kept
PutEntryKeep(data, name, state) ==
  [n \in (DOMAIN data) \cup {name} |-> IF n \in DOMAIN data THEN data[n] ELSE state]

\* all_data[name] = state
PutEntry(data, name, state) ==
  [n \in (DOMAIN data) \cup {name} |-> IF n = name THEN state ELSE data[n]]

\* An entry of the blob that is a JSON value other than an object (a number,
\* a string, a list): it is carried as a one-key function whose key no
\* attribute has.  json.load / json.dump pass it through like any value.
NotMapping == "<value>"
IsMapping(entry) == NotMapping \notin DOMAIN entry

\* persisted.get(name), {} standing for None
GetEntry(data, name) == IF name \in DOMAIN data THEN data[name] ELSE EmptyState

\* ---------------------------------------------------------------- registry
Names == { "A", "B" }
\* upstream identifiers a device may carry (larnitech_id); "" = none
UpIds == { "u1", "u2" }
\* command handlers (one per connected client), the sensor auto_update tasks
\* and the upstream listener: the callers of _persist_device_state
Clients == { "c1", "c2" }
Tasks == Clients \cup { "sensor", "upstream" }

NoDevice == [kind |-> "none", state |-> EmptyState, lid |-> ""]

IdleFrame == [pc |-> "idle", op |-> "", name |-> "", attr |-> "", val |-> Null,
              data |-> EmptyMap]
NoEvent == [dev |-> "", attr |-> "", val |-> Null, blob |-> EmptyState,
            mem |-> EmptyState, fault |-> FALSE]
\* What an operation returned: res is ok / fail / raised / skip, err the
\* error kind, st the state of the device it addressed when it returned, prev
\* (for a registration) the kind of the device the name held before.
Op(op, name, res, err, st) ==
  [op |-> op, name |-> name, res |-> res, err |-> err, st |-> st, data |-> EmptyMap,
   prev |-> "none"]

VARIABLES
  devices,    \* MatterGateway.devices: name -> device (NoDevice: not registered)
  regOrder,   \* insertion order of the names in MatterGateway.devices
  file,       \* the content of devices_state.json
  plock,      \* holder of Persistence.lock ("" = free)
  frame,      \* per task: the handler invocation in progress
  lastOp,     \* the operation completed by the last step, and what it returned
  done,       \* per client: device of its last successful set still in force
  lastEvent,  \* the event the last step handed to the broadcaster, with the
              \* blob entry and the device state as they were at that moment
  wDev, wLast,                                   \* SpecWrite
  got,        \* the mapping a caller holds from read_state() or from
              \* get_all_devices(): its content, and whether it is the
              \* device's own state dict
  active,     \* ConnectionManager.active
  broken,     \* websockets whose send_text raises
  ready,      \* broadcast tasks created and not yet started, in creation order
  waiters,    \* coroutines waiting for ConnectionManager.lock, in arrival order
  pass,       \* the broadcast holding the lock
  inbox,      \* per websocket: the messages delivered to it, in order
  nMsgs,      \* update events handed to broadcaster_wrapper so far
  stable,     \* websockets in the set since before the first event, never closed
  passLog,    \* the broadcast call that returned in the last step
  rq,         \* larnitech_client: the API call in progress or just returned
  ls,         \* larnitech_ws_listener: where its loop stands
  ch,         \* websocket_endpoint: the command channel of one client
  bc,         \* MatterGateway.broadcaster is set (TRUE) or None (FALSE)
  bg,         \* gateway._tasks and the shutdown handler going through them
  orphans,    \* per name: the sensor in gateway.devices_list that a later
              \* register_device of the same name put out of gateway.devices
  obs         \* log: the message of each broadcast task created, in order;
              \* snap, pos: what one dashboard got back from its list command
              \* and how many events it had received by then

gwVars == <<devices, regOrder, file, plock, frame, lastOp, done, lastEvent>>
wVars == <<wDev, wLast, got>>
fanVars == <<active, broken, ready, waiters, pass, inbox, nMsgs, stable, passLog>>
upVars == <<rq>>
lsVars == <<ls>>
chVars == <<ch>>
appVars == <<bc, bg, orphans, obs>>
vars == <<gwVars, wVars, fanVars, upVars, lsVars, chVars, appVars>>

Registered(name) == name \in Names /\ devices[name].kind # "none"
AllIdle == \A t \in Tasks : frame[t].pc = "idle"

\* variant: handlers preempt one another, as threads would
RunnableThreaded(t) == TRUE

\* variant: the client handlers exclude one another; the sensor loops and
\* the listener run beside them
RunnableClientsOnly(t) ==
  t \in Clients => \A u \in Clients \ {t} : frame[u].pc = "idle"

\* set_device_attribute, _persist_device_state and the sensor / listener
\* bodies that call it are plain functions without a suspension point: once
\* one has started on the event loop no other task runs until it returns.
Runnable(t) == \A u \in Tasks \ {t} : frame[u].pc = "idle"

\* dict iteration order of a persisted entry: the insertion order of the
\* state dict that was dumped (constructor order, "value" added last)
AttrOrder == << "power", "brightness", "mode", "setpoint", "temperature",
                "humidity", "lux", "leak", "value", "bogus" >>

\* register_device: for k, v in dev_state.items(): device.write_state(k, v)
RECURSIVE RestoreFrom(_, _, _, _)
RestoreFrom(kind, state, entry, i) ==
  IF i > Len(AttrOrder) THEN state
  ELSE IF AttrOrder[i] \in DOMAIN entry
       THEN RestoreFrom(kind, WriteState(kind, state, AttrOrder[i],
                                         entry[AttrOrder[i]]).state, entry, i + 1)
       ELSE RestoreFrom(kind, state, entry, i + 1)

SeqRange(q) == { q[i] : i \in 1..Len(q) }
Forget(name) == [c \in Clients |-> IF done[c] = name THEN "" ELSE done[c]]
ForgetAll == [c \in Clients |-> ""]

\* variant: a name already in use keeps its first device (setdefault)
RegisterKeepsFirst(name, kind, lid) ==
  /\ AllIdle
  /\ devices' = IF Registered(name) THEN devices
                ELSE [devices EXCEPT ![name] =
                        [kind |-> kind, state |-> DefaultState(kind), lid |-> lid]]
  /\ lastOp' = [Op("register", name, "ok", "", devices'[name].state)
                EXCEPT !.prev = devices[name].kind]
  /\ regOrder' = IF name \in SeqRange(regOrder) THEN regOrder ELSE Append(regOrder, name)
  /\ done' = Forget(name)
  /\ lastEvent' = NoEvent
  /\ UNCHANGED <<file, plock, frame>>

\* MatterGateway.register_device(device), device freshly constructed.  The
\* device is put into self.devices first; load_all may raise, and
\* dev_state.items() raises when the entry is a truthy value without items().
Register(name, kind, lid) ==
  /\ AllIdle
  /\ LET la == LoadAll(file)
         dev_state == GetEntry(la.data, name)
         st == IF la.raised \/ ~IsMapping(dev_state) THEN DefaultState(kind)
               ELSE RestoreFrom(kind, DefaultState(kind), dev_state, 1)
     IN  /\ devices' = [devices EXCEPT ![name] = [kind |-> kind, state |-> st, lid |-> lid]]
         /\ lastOp' = [ (IF la.raised
                         THEN Op("register", name, "raised", "FileNotFoundError", st)
                         ELSE IF ~IsMapping(dev_state)
                         THEN Op("register", name, "raised", "AttributeError", st)
                         ELSE Op("register", name, "ok", "", st))
                       EXCEPT !.prev = devices[name].kind ]
  /\ regOrder' = IF name \in SeqRange(regOrder) THEN regOrder ELSE Append(regOrder, name)
  /\ done' = Forget(name)
  /\ lastEvent' = NoEvent
  /\ UNCHANGED <<file, plock, frame>>

\* _persist_device_state up to the call of save_all: load_all, then
\* all_data[name] = device.read_state().  mem is the device map after the
\* caller's mutation.
PersistBegin(t, op, name, attr, val, mem) ==
  LET la == LoadAll(file)
  IN  /\ devices' = mem
      /\ IF la.raised
         THEN /\ lastOp' = Op(op, name, "raised", "FileNotFoundError", mem[name].state)
              /\ frame' = frame
         ELSE /\ lastOp' = Op(op, name, "pending", "", mem[name].state)
              /\ frame' = [frame EXCEPT ![t] =
                             [pc |-> "open", op |-> op, name |-> name, attr |-> attr,
                              val |-> val,
                              data |-> PutEntry(la.data, name, ReadState(mem[name]))]]

\* variant: a rejected write is reported as a failure but persisted all the same
SetAttrSavesRejected(t, name, attr, val) ==
  /\ frame[t].pc = "idle" /\ Runnable(t)
  /\ lastEvent' = NoEvent
  /\ UNCHANGED <<regOrder, file, plock, devices, done>>
  /\ IF ~Registered(name)
     THEN /\ lastOp' = Op("set", name, "fail", "device_not_found", EmptyState)
          /\ UNCHANGED frame
     ELSE /\ lastOp' = Op("set", name, "fail", "invalid_attribute_or_value",
                          devices[name].state)
          /\ frame' = [frame EXCEPT ![t] =
                         [pc |-> "open", op |-> "set", name |-> name, attr |-> attr,
                          val |-> val,
                          data |-> PutEntry(LoadAll(file).data, name,
                                            ReadState(devices[name]))]]

\* MatterGateway.set_device_attribute(name, attribute, value), called by the
\* command handler of client t
SetAttr(t, name, attr, val) ==
  /\ frame[t].pc = "idle" /\ Runnable(t)
  /\ lastEvent' = NoEvent
  /\ UNCHANGED <<regOrder, file, plock>>
  /\ IF ~Registered(name)
     THEN /\ lastOp' = Op("set", name, "fail", "device_not_found", EmptyState)
          /\ UNCHANGED <<devices, frame, done>>
     ELSE LET w == WriteState(devices[name].kind, devices[name].state, attr, val)
          IN  IF ~w.ok
              THEN /\ lastOp' = Op("set", name, "fail", "invalid_attribute_or_value",
                                   w.state)
                   /\ devices' = [devices EXCEPT ![name].state = w.state]
                   /\ UNCHANGED <<frame, done>>
              ELSE /\ PersistBegin(t, "set", name, attr, val,
                                   [devices EXCEPT ![name].state = w.state])
                   /\ done' = [done EXCEPT ![t] = ""]

\* variant: the save is skipped and the handler goes on to notify
SaveOpenSkip(t) ==
  /\ frame[t].pc = "open" /\ Runnable(t) /\ plock = ""
  /\ frame' = [frame EXCEPT ![t].pc = "notify"]
  /\ lastOp' = [lastOp EXCEPT !.res = "pending"]
  /\ lastEvent' = NoEvent
  /\ UNCHANGED <<devices, regOrder, file, plock, done>>

\* Persistence.save_all, first half: take the lock, open(path, "w") truncates
SaveOpen(t) ==
  /\ frame[t].pc = "open" /\ Runnable(t) /\ plock = ""
  /\ plock' = t
  /\ file' = FileEmpty
  /\ frame' = [frame EXCEPT ![t].pc = "dump"]
  /\ lastOp' = [lastOp EXCEPT !.res = "pending"]
  /\ lastEvent' = NoEvent
  /\ UNCHANGED <<devices, regOrder, done>>

\* Persistence.save_all, second half: json.dump writes the text, the file is
\* closed and the lock released
SaveDump(t) ==
  /\ frame[t].pc = "dump" /\ Runnable(t) /\ plock = t
  /\ plock' = ""
  /\ file' = DumpAll(frame[t].data)
  /\ frame' = [frame EXCEPT ![t].pc = "notify"]
  /\ lastOp' = [lastOp EXCEPT !.res = "pending"]
  /\ lastEvent' = NoEvent
  /\ UNCHANGED <<devices, regOrder, done>>

\* The broadcaster call that follows _persist_device_state on each write
\* path, and the return to the caller.
Notify(t) ==
  /\ frame[t].pc = "notify" /\ Runnable(t)
  /\ LET f == frame[t]
     IN  /\ lastEvent' = [dev |-> f.name, attr |-> f.attr, val |-> f.val,
                          blob |-> GetEntry(LoadAll(file).data, f.name),
                          mem |-> ReadState(devices[f.name]), fault |-> FALSE]
         /\ lastOp' = Op(f.op, f.name, "ok", "", ReadState(devices[f.name]))
         /\ done' = IF f.op = "set" THEN [done EXCEPT ![t] = f.name] ELSE done
  /\ frame' = [frame EXCEPT ![t] = IdleFrame]
  /\ UNCHANGED <<devices, regOrder, file, plock>>

\* variant: a fault of the broadcaster reaches the caller on every path
NotifyRaisesUncaught(t) ==
  /\ frame[t].pc = "notify" /\ Runnable(t)
  /\ LET f == frame[t]
     IN  /\ lastEvent' = [dev |-> f.name, attr |-> f.attr, val |-> f.val,
                          blob |-> GetEntry(LoadAll(file).data, f.name),
                          mem |-> ReadState(devices[f.name]), fault |-> TRUE]
         /\ lastOp' = Op(f.op, f.name, "raised", "broadcaster",
                         ReadState(devices[f.name]))
  /\ frame' = [frame EXCEPT ![t] = IdleFrame]
  /\ UNCHANGED <<devices, regOrder, file, plock, done>>

\* The broadcaster call raises.  set_device_attribute and the sensors call it
\* inside try/except and go on; the listener calls it unguarded, so there the
\* fault leaves the message loop.
NotifyRaises(t) ==
  /\ frame[t].pc = "notify" /\ Runnable(t)
  /\ LET f == frame[t]
     IN  /\ lastEvent' = [dev |-> f.name, attr |-> f.attr, val |-> f.val,
                          blob |-> GetEntry(LoadAll(file).data, f.name),
                          mem |-> ReadState(devices[f.name]), fault |-> TRUE]
         /\ lastOp' = IF f.op = "event"
                      THEN Op(f.op, f.name, "raised", "broadcaster",
                              ReadState(devices[f.name]))
                      ELSE Op(f.op, f.name, "ok", "", ReadState(devices[f.name]))
         /\ done' = IF f.op = "set" THEN [done EXCEPT ![t] = f.name] ELSE done
  /\ frame' = [frame EXCEPT ![t] = IdleFrame]
  /\ UNCHANGED <<devices, regOrder, file, plock>>

\* variant: without a broadcaster the write is reported as failed
ReturnBareFails(t) ==
  /\ frame[t].pc = "notify" /\ Runnable(t)
  /\ lastOp' = Op(frame[t].op, frame[t].name, "fail", "no_broadcaster",
                  ReadState(devices[frame[t].name]))
  /\ lastEvent' = NoEvent
  /\ frame' = [frame EXCEPT ![t] = IdleFrame]
  /\ UNCHANGED <<devices, regOrder, file, plock, done>>

\* The end of set_device_attribute on a gateway built without broadcaster:
\* "if self.broadcaster:" is false and the call returns (True, None).
ReturnBare(t) ==
  /\ frame[t].pc = "notify" /\ Runnable(t)
  /\ LET f == frame[t]
     IN  /\ lastOp' = Op(f.op, f.name, "ok", "", ReadState(devices[f.name]))
         /\ done' = IF f.op = "set" THEN [done EXCEPT ![t] = f.name] ELSE done
  /\ lastEvent' = NoEvent
  /\ frame' = [frame EXCEPT ![t] = IdleFrame]
  /\ UNCHANGED <<devices, regOrder, file, plock>>

Max2(a, b) == IF a >= b THEN a ELSE b
Min2(a, b) == IF a <= b THEN a ELSE b

\* the attribute a sensor kind reports
SensorAttr(kind) ==
  CASE kind = "temperature_sensor" -> "temperature"
    [] kind = "humidity_sensor"    -> "humidity"
    [] kind = "light_sensor"       -> "lux"
    [] OTHER                       -> "leak"

\* The reading one auto_update tick synthesizes; hi picks the upper or the
\* lower end of what random.uniform / random.choice can return.
\*   temperature: max(20.0, min(30.0, round(t + uniform(-0.5, 0.5), 1)));
\*                min(30.0, nan) is 30.0
TickReading(kind, state, hi) ==
  CASE kind = "temperature_sensor" ->
         LET cur == state["temperature"]
             new == cur.n + (IF hi THEN 5 ELSE -5)
         IN  IF IsNaN(cur) THEN F(10 * TempTickMax)
             ELSE F(Max2(10 * TempTickMin, Min2(10 * TempTickMax, new)))
    [] kind = "humidity_sensor" -> F(10 * (IF hi THEN HumTickMax ELSE HumTickMin))
    [] kind = "light_sensor"    -> F(10 * (IF hi THEN LuxTickMax ELSE 0))
    [] OTHER                    -> B(hi)

\* One iteration of <Sensor>.auto_update after its sleep: the sensor assigns
\* the reading to its state directly, then persists and broadcasts.
Tick(name, hi) ==
  /\ frame["sensor"].pc = "idle" /\ Runnable("sensor")
  /\ Registered(name) /\ devices[name].kind \in SensorKinds
  /\ LET kind == devices[name].kind
         r == TickReading(kind, devices[name].state, hi)
     IN  PersistBegin("sensor", "tick", name, SensorAttr(kind), r,
                      [devices EXCEPT ![name].state = Put(@, SensorAttr(kind), r)])
  /\ lastEvent' = NoEvent
  /\ UNCHANGED <<regOrder, file, plock, done>>

\* variant: the first registered device is taken, whatever its identifier
MatchFromAny(id, i) == IF regOrder = << >> THEN "" ELSE regOrder[1]

\* for dev in gateway.devices.values(): first device whose larnitech_id
\* equals dev_id
RECURSIVE MatchFrom(_, _)
MatchFrom(id, i) ==
  IF i > Len(regOrder) THEN ""
  ELSE IF devices[regOrder[i]].lid = id THEN regOrder[i]
       ELSE MatchFrom(id, i + 1)

\* larnitech_ws_listener: one inbound message {"id": id, "value": val};
\* id = "" stands for a missing or empty id
UpstreamEvent(id, val) ==
  /\ frame["upstream"].pc = "idle" /\ Runnable("upstream")
  /\ lastEvent' = NoEvent
  /\ UNCHANGED <<regOrder, file, plock, done>>
  /\ IF id = ""
     THEN /\ lastOp' = Op("event", "", "skip", "no_id", EmptyState)
          /\ UNCHANGED <<devices, frame>>
     ELSE LET m == MatchFrom(id, 1)
          IN  IF m = ""
              THEN /\ lastOp' = Op("event", "", "skip", "unknown_id", EmptyState)
                   /\ UNCHANGED <<devices, frame>>
              ELSE PersistBegin("upstream", "event", m, "value", val,
                                [devices EXCEPT ![m].state = Put(@, "value", val)])

\* What a kill of the process leaves in the file: json.dump was writing into
\* the truncated file if a save_all was between open and close.
CrashFiles ==
  IF \E t \in Tasks : frame[t].pc = "dump" THEN { FileEmpty, FilePartial }
  ELSE { file }

\* The process dies at any point and is started again: memory is lost, a new
\* MatterGateway() constructs Persistence(), which runs _ensure_file.
Restart ==
  /\ \E f \in CrashFiles : file' = EnsureFile(f)
  /\ devices' = [n \in Names |-> NoDevice]
  /\ regOrder' = << >>
  /\ plock' = ""
  /\ frame' = [t \in Tasks |-> IdleFrame]
  /\ done' = ForgetAll
  /\ lastOp' = IF lastOp.op = "set" /\ lastOp.res = "ok"
               THEN [lastOp EXCEPT !.op = "set_restart"]
               ELSE Op("restart", "", "", "", EmptyState)
  /\ lastEvent' = NoEvent

\* A persisted blob left by an older or foreign writer: wrong types, values
\* out of range, an unknown attribute.
StaleEntry ==
  [a \in {"power", "brightness", "mode", "setpoint", "temperature", "humidity",
          "lux", "leak", "bogus"} |->
     CASE a = "power"       -> S("abc")
       [] a = "brightness"  -> I(101)
       [] a = "mode"        -> S("abc")
       [] a = "setpoint"    -> I(75)
       [] a = "temperature" -> S("abc")
       [] a = "humidity"    -> I(101)
       [] a = "lux"         -> I(-1)
       [] a = "leak"        -> I(0)
       [] OTHER             -> I(20)]
StaleFile == DumpAll([n \in {"A"} |-> StaleEntry])
EditedFiles == { FileCorrupt, FileNonMap, StaleFile }

\* A blob whose entry for A mixes attributes that apply with ones that do
\* not, and a blob whose entry for A is not an object but the number 5.  (A
\* falsy value such as null, 0 or [] is skipped like an absent entry.)
MixedEntry ==
  [a \in {"power", "brightness", "mode", "setpoint", "temperature", "humidity",
          "lux", "leak", "bogus"} |->
     CASE a = "power"       -> B(TRUE)
       [] a = "brightness"  -> I(101)
       [] a = "mode"        -> S("cool")
       [] a = "setpoint"    -> I(75)
       [] a = "temperature" -> F(205)
       [] a = "humidity"    -> S("abc")
       [] a = "lux"         -> F(205)
       [] a = "leak"        -> I(0)
       [] OTHER             -> I(20)]
MixedFile == DumpAll([n \in {"A"} |-> MixedEntry])
ScalarFile == DumpAll([n \in {"A"} |-> [a \in {NotMapping} |-> I(5)]])
RegFiles == { FileCorrupt, FileNonMap, StaleFile, MixedFile, ScalarFile }

\* The file is replaced from outside the process while no handler runs.
FileEdited(f) ==
  /\ AllIdle
  /\ file' = f
  /\ done' = ForgetAll
  /\ lastOp' = Op("env", "", "", "", EmptyState)
  /\ lastEvent' = NoEvent
  /\ UNCHANGED <<devices, regOrder, plock, frame>>

\* The file is removed from outside the process after the store was built.
FileRemoved ==
  /\ AllIdle
  /\ file' = FileMissing
  /\ done' = ForgetAll
  /\ lastOp' = Op("env", "", "", "", EmptyState)
  /\ lastEvent' = NoEvent
  /\ UNCHANGED <<devices, regOrder, plock, frame>>

\* A caller invokes Persistence.load_all() and gets its result or its fault.
LoadAllCall ==
  /\ AllIdle /\ plock = ""
  /\ LET la == LoadAll(file)
     IN  lastOp' = [Op("load", "", IF la.raised THEN "raised" ELSE "ok",
                       IF la.raised THEN "FileNotFoundError" ELSE "", EmptyState)
                    EXCEPT !.data = la.data]
  /\ lastEvent' = NoEvent
  /\ UNCHANGED <<devices, regOrder, file, plock, frame, done>>

GwInit ==
  /\ devices = [n \in Names |-> NoDevice]
  /\ regOrder = << >>
  /\ file = EnsureFile(FileMissing)
  /\ plock = ""
  /\ frame = [t \in Tasks |-> IdleFrame]
  /\ lastOp = Op("init", "", "", "", EmptyState)
  /\ done = [c \in Clients |-> ""]
  /\ lastEvent = NoEvent

NoWrite == [ok |-> TRUE, attr |-> "", val |-> Null, before |-> EmptyState]
\* nothing read yet
NoGot == [held |-> FALSE, own |-> FALSE, map |-> EmptyState]
WInit == wDev = NoDevice /\ wLast = NoWrite /\ got = NoGot

\* websockets a dashboard client opens on /ws
Sockets == { "w1", "w2", "w3" }

\* the broadcast that holds ConnectionManager.lock: its message, the part of
\* list(self.active) still to be visited, to_remove, and the list it started
\* with.  msg = 0: no broadcast holds the lock.
NoPass == [msg |-> 0, todo |-> {}, failed |-> {}, snap |-> {}]
\* the broadcast call that returned in the last step
NoLog == [msg |-> 0, snap |-> {}, failed |-> {}, after |-> {}]

FanInit ==
  /\ active = {} /\ broken = {} /\ ready = << >> /\ waiters = << >>
  /\ pass = NoPass /\ inbox = [w \in Sockets |-> << >>] /\ nMsgs = 0
  /\ stable = {} /\ passLog = NoLog

\* no upstream API call made yet
NoRequest == [pc |-> "idle", op |-> "", url |-> "", attempt |-> 0, log |-> << >>,
              ret |-> ""]
UpInit == rq = NoRequest

\* the listener task at "while True", before its first connection attempt;
\* delayed: a reconnect delay has elapsed since the last attempt (or none was
\* made yet); wait: the length of the last sleep
ListenerStart == [pc |-> "top", delayed |-> TRUE, wait |-> 0]
LsInit == ls = ListenerStart

\* no message received on the channel; ChClosed: no client connected
NoMsg == [shape |-> "", cmd |-> "", dev |-> "", attr |-> "", val |-> Null]
ChClosed == [pc |-> "closed", ws |-> "", msg |-> NoMsg, sent |-> 0, status |-> ""]
ChInit == ch = ChClosed

\* api/websocket_api.py builds its gateway with broadcaster_wrapper
\* gateway._tasks as startup_event fills it: the auto_update task of each
\* sensor in device order, then the listener task; sd: where shutdown_event
\* stands, i: the index of its "for task in tasks"
TaskList == << "temperature_sensor", "leak_sensor", "listener" >>
BgTasks == { "temperature_sensor", "leak_sensor", "listener" }
BgStart == [task |-> [t \in BgTasks |-> "running"], sd |-> "serving", i |-> 0]
\* no list response received yet
NoSnap == [n \in {"<none>"} |-> EmptyState]
ObsStart == [log |-> << >>, snap |-> NoSnap, pos |-> 0]
AppInit ==
  /\ bc = TRUE /\ bg = BgStart /\ orphans = [n \in Names |-> NoDevice]
  /\ obs = ObsStart

Init == GwInit /\ WInit /\ FanInit /\ UpInit /\ LsInit /\ ChInit /\ AppInit

\* ---- Spec: one registered name, every device kind
\* (attribute, value) pairs a client sends: per attribute a valid value, a
\* value of the wrong type and a value out of range
SetInputs ==
  { <<"power", B(TRUE)>>, <<"power", B(FALSE)>>, <<"power", I(0)>>,
    <<"brightness", I(0)>>, <<"brightness", I(75)>>, <<"brightness", I(101)>>,
    <<"brightness", B(TRUE)>>, <<"brightness", F(205)>>, <<"brightness", S("abc")>>,
    <<"mode", S("HEAT")>>, <<"mode", S("cool")>>, <<"mode", S("abc")>>,
    <<"setpoint", I(20)>>, <<"setpoint", I(75)>>, <<"setpoint", Null>>,
    <<"temperature", I(101)>>, <<"temperature", S("nan")>>, <<"temperature", S("abc")>>,
    <<"humidity", I(20)>>, <<"humidity", I(101)>>, <<"humidity", S("nan")>>,
    <<"lux", I(75)>>, <<"lux", I(-1)>>,
    <<"leak", B(TRUE)>>, <<"leak", B(FALSE)>>, <<"leak", I(0)>>,
    <<"value", I(0)>>, <<"bogus", B(TRUE)>> }
\* devices registered with an upstream identifier
UpKinds == { "lamp", "humidity_sensor" }
RegInputs == { <<k, "">> : k \in Kinds } \cup { <<k, "u1">> : k \in UpKinds }
\* values the upstream controller pushes
UpVals == { B(TRUE), I(101) }

\* the variables of the other specifications
GwRest == UNCHANGED <<wVars, fanVars, upVars, lsVars, chVars, appVars>>

Next ==
  \/ \E r \in RegInputs : Register("A", r[1], r[2]) /\ GwRest
  \/ \E n \in {"A", "Ghost"}, i \in SetInputs : SetAttr("c1", n, i[1], i[2]) /\ GwRest
  \/ \E t \in Tasks : SaveOpen(t) /\ GwRest
  \/ \E t \in Tasks : SaveDump(t) /\ GwRest
  \/ \E t \in Tasks : Notify(t) /\ GwRest
  \/ \E t \in Tasks : NotifyRaises(t) /\ GwRest
  \/ \E hi \in BOOLEAN : Tick("A", hi) /\ GwRest
  \/ \E id \in UpIds \cup {""}, v \in UpVals : UpstreamEvent(id, v) /\ GwRest
  \/ Restart /\ GwRest
  \/ \E f \in EditedFiles : FileEdited(f) /\ GwRest
  \/ FileRemoved /\ GwRest
  \/ LoadAllCall /\ GwRest

Spec == Init /\ [][Next]_vars

\* ---- SpecStartup: the application after startup_event has loaded a device
\* configuration and started one auto_update task per entry of devices_list
\* config/devices_config.json: one or two entries, all of them named "A"
CfgKinds == { "humidity_sensor", "leak_sensor", "lamp" }
Configs == { <<k>> : k \in CfgKinds } \cup { <<k1, k2>> : k1, k2 \in CfgKinds }
\* a device as its constructor leaves it (the state file is new, so that
\* register_device restores nothing)
FreshDevice(kind) == [kind |-> kind, state |-> DefaultState(kind), lid |-> ""]
\* load_devices_from_config: every entry is constructed, appended to devices
\* and registered in order; devices[name] is the last one of its name, while
\* devices_list keeps them all
StartupInit ==
  /\ WInit /\ FanInit /\ UpInit /\ LsInit /\ ChInit
  /\ bc = TRUE /\ bg = BgStart /\ obs = ObsStart
  /\ regOrder = << "A" >>
  /\ file = EnsureFile(FileMissing)
  /\ plock = ""
  /\ frame = [t \in Tasks |-> IdleFrame]
  /\ lastOp = Op("init", "", "", "", EmptyState)
  /\ done = [c \in Clients |-> ""]
  /\ lastEvent = NoEvent
  /\ \E cfg \in Configs :
       /\ devices = [n \in Names |-> IF n = "A" THEN FreshDevice(cfg[Len(cfg)])
                                     ELSE NoDevice]
       /\ orphans = [n \in Names |-> IF n = "A" /\ Len(cfg) = 2
                                     THEN FreshDevice(cfg[1]) ELSE NoDevice]

\* One iteration of <Sensor>.auto_update of a sensor that is in devices_list
\* but no longer in gateway.devices: self.state takes the reading,
\* gateway._persist_device_state(self.name) saves read_state() of the device
\* registered under the name, and the broadcaster gets the reading.
TickOrphan(name, hi) ==
  /\ frame["sensor"].pc = "idle" /\ Runnable("sensor")
  /\ orphans[name].kind \in SensorKinds /\ Registered(name)
  /\ LET kind == orphans[name].kind
         r == TickReading(kind, orphans[name].state, hi)
     IN  /\ orphans' = [orphans EXCEPT ![name].state = Put(@, SensorAttr(kind), r)]
         /\ PersistBegin("sensor", "tick", name, SensorAttr(kind), r, devices)
  /\ lastEvent' = NoEvent
  /\ UNCHANGED <<regOrder, file, plock, done>>
  /\ UNCHANGED <<wVars, fanVars, upVars, lsVars, chVars, bc, bg, obs>>

StartupInputs ==
  { <<"humidity", I(20)>>, <<"humidity", I(101)>>, <<"leak", B(TRUE)>>,
    <<"power", B(TRUE)>>, <<"power", I(0)>> }
StartupNext ==
  \/ \E hi \in BOOLEAN : Tick("A", hi) /\ GwRest
  \/ \E hi \in BOOLEAN : TickOrphan("A", hi)
  \/ \E i \in StartupInputs : SetAttr("c1", "A", i[1], i[2]) /\ GwRest
  \/ \E t \in Tasks : SaveOpen(t) /\ GwRest
  \/ \E t \in Tasks : SaveDump(t) /\ GwRest
  \/ \E t \in Tasks : Notify(t) /\ GwRest
  \/ \E t \in Tasks : NotifyRaises(t) /\ GwRest

SpecStartup == StartupInit /\ [][StartupNext]_vars

\* ---- SpecRegister: registration of either name as any kind over blobs
\* written by another program
RegisterNext ==
  \/ \E n \in Names, k \in Kinds : Register(n, k, "") /\ GwRest
  \/ \E f \in RegFiles : FileEdited(f) /\ GwRest
  \/ Restart /\ GwRest

SpecRegister == Init /\ [][RegisterNext]_vars

\* ---- SpecBare: one gateway, built with a broadcaster or without one (as
\* hap_bridge.py and matter_bridge.py build theirs), driven by register and
\* set_device_attribute calls of one client
BareKinds == { "dimmer", "thermostat" }
BareInputs == { <<"brightness", I(75)>>, <<"brightness", I(101)>>,
                <<"power", B(FALSE)>>, <<"mode", S("HEAT")>>, <<"setpoint", I(20)>>,
                <<"bogus", B(TRUE)>> }
BareInit ==
  /\ GwInit /\ WInit /\ FanInit /\ UpInit /\ LsInit /\ ChInit
  /\ bc \in BOOLEAN /\ bg = BgStart /\ orphans = [n \in Names |-> NoDevice]
  /\ obs = ObsStart

BareNext ==
  \/ \E k \in BareKinds : Register("A", k, "") /\ GwRest
  \/ \E n \in {"A", "Ghost"}, i \in BareInputs : SetAttr("c1", n, i[1], i[2]) /\ GwRest
  \/ SaveOpen("c1") /\ GwRest
  \/ SaveDump("c1") /\ GwRest
  \/ bc /\ Notify("c1") /\ GwRest
  \/ bc /\ NotifyRaises("c1") /\ GwRest
  \/ ~bc /\ ReturnBare("c1") /\ GwRest

SpecBare == BareInit /\ [][BareNext]_vars

\* ---- SpecPair: two registered names and two clients, two device kinds
PairKinds == { "dimmer", "leak_sensor" }
PairInputs == { <<"brightness", I(75)>>, <<"brightness", I(101)>>,
                <<"power", B(FALSE)>>, <<"leak", B(TRUE)>> }

PairNext ==
  \/ \E n \in Names, k \in PairKinds : Register(n, k, "") /\ GwRest
  \/ \E t \in Clients, n \in Names, i \in PairInputs : SetAttr(t, n, i[1], i[2]) /\ GwRest
  \/ \E t \in Tasks : SaveOpen(t) /\ GwRest
  \/ \E t \in Tasks : SaveDump(t) /\ GwRest
  \/ \E t \in Tasks : Notify(t) /\ GwRest
  \/ \E n \in Names, hi \in BOOLEAN : Tick(n, hi) /\ GwRest
  \/ Restart /\ GwRest
  \/ FileEdited(FileCorrupt) /\ GwRest

SpecPair == Init /\ [][PairNext]_vars

\* ---- SpecWrite: one device of any kind, driven by write_state alone
Write(attr, val) ==
  /\ LET w == WriteState(wDev.kind, wDev.state, attr, val)
     IN  /\ wDev' = [wDev EXCEPT !.state = w.state]
         /\ wLast' = [ok |-> w.ok, attr |-> attr, val |-> val,
                      before |-> ReadState(wDev)]
         /\ got' = IF got.own THEN [got EXCEPT !.map = w.state] ELSE got
  /\ UNCHANGED <<gwVars, fanVars, upVars, lsVars, chVars, appVars>>

WriteInit ==
  /\ GwInit /\ FanInit /\ UpInit /\ LsInit /\ ChInit /\ AppInit
  /\ wDev \in { [kind |-> k, state |-> DefaultState(k), lid |-> ""] : k \in Kinds }
  /\ wLast = NoWrite /\ got = NoGot

WriteNext == \E a \in Attrs, v \in InVals : Write(a, v)

SpecWrite == WriteInit /\ [][WriteNext]_vars

\* ---- SpecRead: one device of any kind; a caller reads it, directly or
\* through get_all_devices(), changes the mapping it got, and reads again
\* read_state() returns self.state itself (OnOffLamp) or dict(self.state)
ReturnsOwnDict(kind) == kind = "lamp"
ReadInputs == { <<"power", B(TRUE)>>, <<"power", S("abc")>>, <<"brightness", I(75)>>,
                <<"bogus", I(0)>> }

\* device.read_state(), or the device's item of gateway.get_all_devices(),
\* which is {name: dev.read_state() ...}
ReadCall ==
  /\ got' = [held |-> TRUE, own |-> ReturnsOwnDict(wDev.kind), map |-> ReadState(wDev)]
  /\ UNCHANGED <<wDev, wLast>>
  /\ UNCHANGED <<gwVars, fanVars, upVars, lsVars, chVars, appVars>>

\* the caller assigns into the mapping it holds: returned[attr] = v
CallerAssigns(attr, v) ==
  /\ got.held
  /\ got' = [got EXCEPT !.map = Put(@, attr, v)]
  /\ wDev' = IF got.own THEN [wDev EXCEPT !.state = Put(@, attr, v)] ELSE wDev
  /\ UNCHANGED wLast
  /\ UNCHANGED <<gwVars, fanVars, upVars, lsVars, chVars, appVars>>

ReadNext ==
  \/ \E i \in ReadInputs : Write(i[1], i[2])
  \/ ReadCall
  \/ \E i \in ReadInputs : CallerAssigns(i[1], i[2])

SpecRead == WriteInit /\ [][ReadNext]_vars

\* ---- SpecRestore: one device of a fixed kind (the kind of wDev), written only
\* through set_device_attribute, with restarts and re-registration
RestoreNext ==
  \/ Register("A", wDev.kind, "") /\ GwRest
  \/ \E i \in SetInputs : SetAttr("c1", "A", i[1], i[2]) /\ GwRest
  \/ \E t \in Tasks : SaveOpen(t) /\ GwRest
  \/ \E t \in Tasks : SaveDump(t) /\ GwRest
  \/ \E t \in Tasks : Notify(t) /\ GwRest
  \/ Restart /\ GwRest

SpecRestore == WriteInit /\ [][RestoreNext]_vars

\* ---- SpecFan: ConnectionManager, the broadcast tasks and the event loop
Waiter(kind, msg, ws) == [kind |-> kind, msg |-> msg, ws |-> ws]
Pending(kind, ws) == \E i \in 1..Len(waiters) : waiters[i] = Waiter(kind, 0, ws)

\* asyncio.Lock.acquire() returns at once only when the lock is free and no
\* coroutine is waiting for it; otherwise the caller joins the queue
LockFree == pass.msg = 0 /\ waiters = << >>

\* how often msg was delivered to a websocket
Count(q, msg) == Cardinality({ i \in 1..Len(q) : q[i] = msg })

\* variant: a failed send ends the loop
AttemptAbort(p, ws, ok) ==
  [p EXCEPT !.todo = IF ok THEN @ \ {ws} ELSE {},
            !.failed = IF ok THEN @ ELSE @ \cup {ws}]

\* one turn of "for ws in list(self.active)": the send succeeded (ok) or
\* raised and ws went to to_remove
Attempt(p, ws, ok) ==
  [p EXCEPT !.todo = @ \ {ws},
            !.failed = IF ok THEN @ ELSE @ \cup {ws}]

\* broadcast() enters "async with self.lock" and copies the set; with nobody
\* connected it returns without suspending
Begin(msg) ==
  /\ active' = active
  /\ IF active = {}
     THEN /\ pass' = NoPass
          /\ passLog' = [msg |-> msg, snap |-> {}, failed |-> {}, after |-> {}]
     ELSE /\ pass' = [msg |-> msg, todo |-> active, failed |-> {}, snap |-> active]
          /\ passLog' = NoLog

\* variant: two broadcast tasks are created for one event
IssueTwice ==
  /\ nMsgs < MaxMsgs
  /\ nMsgs' = nMsgs + 1
  /\ ready' = Append(Append(ready, nMsgs + 1), nMsgs + 1)
  /\ passLog' = NoLog
  /\ UNCHANGED <<active, broken, waiters, pass, inbox, stable>>

\* broadcaster_wrapper(msg): asyncio.create_task(manager.broadcast(msg))
Issue ==
  /\ nMsgs < MaxMsgs
  /\ nMsgs' = nMsgs + 1
  /\ ready' = Append(ready, nMsgs + 1)
  /\ passLog' = NoLog
  /\ UNCHANGED <<active, broken, waiters, pass, inbox, stable>>

\* variant: the event loop starts the newest created task first
StartNewest ==
  /\ ready # << >>
  /\ ready' = SubSeq(ready, 1, Len(ready) - 1)
  /\ IF LockFree
     THEN Begin(ready[Len(ready)]) /\ UNCHANGED waiters
     ELSE /\ waiters' = Append(waiters, Waiter("broadcast", ready[Len(ready)], ""))
          /\ passLog' = NoLog
          /\ UNCHANGED <<active, pass>>
  /\ UNCHANGED <<broken, inbox, nMsgs, stable>>

\* The event loop starts the oldest created task: it runs broadcast() up to
\* the lock, and on into the pass if the lock is free.
Start ==
  /\ ready # << >>
  /\ ready' = Tail(ready)
  /\ IF LockFree
     THEN Begin(Head(ready)) /\ UNCHANGED waiters
     ELSE /\ waiters' = Append(waiters, Waiter("broadcast", Head(ready), ""))
          /\ passLog' = NoLog
          /\ UNCHANGED <<active, pass>>
  /\ UNCHANGED <<broken, inbox, nMsgs, stable>>

\* await ws.send_text(data) for one websocket of the copied list completes;
\* after the last one the failed websockets are removed and the lock released
SendStep(ws) ==
  /\ pass.msg # 0 /\ ws \in pass.todo
  /\ LET ok == ws \notin broken
         p == Attempt(pass, ws, ok)
     IN  /\ inbox' = IF ok THEN [inbox EXCEPT ![ws] = Append(@, pass.msg)] ELSE inbox
         /\ IF p.todo = {}
            THEN /\ pass' = NoPass
                 /\ active' = active \ p.failed
                 /\ passLog' = [msg |-> p.msg, snap |-> p.snap, failed |-> p.failed,
                                after |-> active \ p.failed]
            ELSE /\ pass' = p
                 /\ active' = active
                 /\ passLog' = NoLog
  /\ UNCHANGED <<broken, ready, waiters, nMsgs, stable>>

\* The lock was released and its first waiter runs: a broadcast starts its
\* pass, a connect adds its websocket, a disconnect removes it.
Grant ==
  /\ pass.msg = 0 /\ waiters # << >>
  /\ waiters' = Tail(waiters)
  /\ LET w == Head(waiters)
     IN  CASE w.kind = "broadcast" -> Begin(w.msg) /\ UNCHANGED stable
           [] w.kind = "connect" ->
                /\ active' = active \cup {w.ws}
                /\ stable' = IF nMsgs = 0 THEN stable \cup {w.ws} ELSE stable
                /\ passLog' = NoLog /\ UNCHANGED pass
           [] OTHER ->
                /\ active' = active \ {w.ws}
                /\ passLog' = NoLog /\ UNCHANGED <<pass, stable>>
  /\ UNCHANGED <<broken, ready, inbox, nMsgs>>

\* ConnectionManager.connect(websocket), from websocket_endpoint
Connect(ws) ==
  /\ ws \notin active /\ ws \notin broken /\ ~Pending("connect", ws)
  /\ IF LockFree
     THEN /\ active' = active \cup {ws}
          /\ stable' = IF nMsgs = 0 THEN stable \cup {ws} ELSE stable
          /\ UNCHANGED waiters
     ELSE /\ waiters' = Append(waiters, Waiter("connect", 0, ws))
          /\ UNCHANGED <<active, stable>>
  /\ passLog' = NoLog
  /\ UNCHANGED <<broken, ready, pass, inbox, nMsgs>>

\* variant: disconnect removes the websocket without taking the lock
HangupUnlocked(ws) ==
  /\ ws \in active /\ ~Pending("disconnect", ws)
  /\ broken' = broken \cup {ws}
  /\ stable' = stable \ {ws}
  /\ active' = active \ {ws}
  /\ passLog' = NoLog
  /\ UNCHANGED <<ready, waiters, pass, inbox, nMsgs>>

\* The client closes: receive_text raises WebSocketDisconnect, the endpoint
\* calls ConnectionManager.disconnect(websocket); sends to it raise from now on
Hangup(ws) ==
  /\ ws \in active /\ ~Pending("disconnect", ws)
  /\ broken' = broken \cup {ws}
  /\ stable' = stable \ {ws}
  /\ IF LockFree
     THEN active' = active \ {ws} /\ UNCHANGED waiters
     ELSE waiters' = Append(waiters, Waiter("disconnect", 0, ws)) /\ UNCHANGED active
  /\ passLog' = NoLog
  /\ UNCHANGED <<ready, pass, inbox, nMsgs>>

\* A connection fails without the endpoint having seen it yet
Break(ws) ==
  /\ ws \in active /\ ws \notin broken
  /\ broken' = broken \cup {ws}
  /\ stable' = stable \ {ws}
  /\ passLog' = NoLog
  /\ UNCHANGED <<active, ready, waiters, pass, inbox, nMsgs>>

FanRest == UNCHANGED <<gwVars, wVars, upVars, lsVars, chVars, appVars>>

FanNext ==
  \/ Issue /\ FanRest
  \/ Start /\ FanRest
  \/ \E ws \in Sockets : SendStep(ws) /\ FanRest
  \/ Grant /\ FanRest
  \/ \E ws \in Sockets : Connect(ws) /\ FanRest
  \/ \E ws \in Sockets : Hangup(ws) /\ FanRest
  \/ \E ws \in Sockets : Break(ws) /\ FanRest

SpecFan == Init /\ [][FanNext]_vars

\* ---- SpecDash: the dashboard process: a client's set commands on one
\* dimmer, whose broadcaster is broadcaster_wrapper, and two subscribers
DashInputs == { <<"brightness", I(75)>>, <<"brightness", I(101)>>,
                <<"power", B(FALSE)>>, <<"bogus", B(TRUE)>> }
DashSockets == { "w1", "w2" }

DashNext ==
  \/ Register("A", "dimmer", "") /\ GwRest
  \/ \E n \in {"A", "Ghost"}, i \in DashInputs : SetAttr("c1", n, i[1], i[2]) /\ GwRest
  \/ SaveOpen("c1") /\ GwRest
  \/ SaveDump("c1") /\ GwRest
  \/ Notify("c1") /\ Issue /\ UNCHANGED <<wVars, upVars, lsVars, chVars, appVars>>
  \/ Start /\ FanRest
  \/ \E ws \in DashSockets : SendStep(ws) /\ FanRest
  \/ Grant /\ FanRest
  \/ \E ws \in DashSockets : Connect(ws) /\ FanRest
  \/ \E ws \in DashSockets : Hangup(ws) /\ FanRest

SpecDash == Init /\ [][DashNext]_vars

\* ---- SpecReplica: one dashboard that connects, sends list, and then only
\* listens, while another client sets attributes of one device of any kind
\* accepted (attribute, value) pairs, per kind, in and out of canonical form
ReplicaInputs ==
  { <<"power", B(TRUE)>>, <<"brightness", I(75)>>, <<"brightness", I(0)>>,
    <<"brightness", S("75")>>, <<"mode", S("cool")>>, <<"mode", S("HEAT")>>,
    <<"setpoint", I(20)>>, <<"temperature", I(20)>>, <<"humidity", F(205)>>,
    <<"lux", I(75)>>, <<"leak", B(TRUE)>> }
Observer == "w1"

\* MatterGateway.get_all_devices()
GetAllDevices ==
  [n \in { m \in Names : Registered(m) } |-> ReadState(devices[n])]

\* load_devices_from_config at startup: the device is registered once
ReplicaRegister(kind) ==
  /\ regOrder = << >>
  /\ Register("A", kind, "")

\* the dashboard connects once, after startup_event has loaded the devices
Subscribe ==
  /\ regOrder # << >> /\ Observer \notin stable
  /\ Connect(Observer)

\* cmd list: the response carries gateway.get_all_devices()
ListCmd ==
  /\ Observer \in active /\ obs.snap = NoSnap /\ AllIdle
  /\ obs' = [obs EXCEPT !.snap = GetAllDevices, !.pos = Len(inbox[Observer])]
  /\ UNCHANGED <<bc, bg, orphans>>
  /\ UNCHANGED <<gwVars, wVars, fanVars, upVars, lsVars, chVars>>

\* the broadcaster call of set_device_attribute: broadcaster_wrapper creates
\* the task manager.broadcast(msg) with the message the gateway built
NotifyIssue(t) ==
  /\ Notify(t) /\ Issue
  /\ obs' = [obs EXCEPT !.log = Append(@, [dev |-> frame[t].name,
                                           attr |-> frame[t].attr,
                                           val |-> frame[t].val])]
  /\ UNCHANGED <<bc, bg, orphans>>
  /\ UNCHANGED <<wVars, upVars, lsVars, chVars>>

ReplicaNext ==
  \/ \E k \in Kinds : ReplicaRegister(k) /\ GwRest
  \/ Subscribe /\ FanRest
  \/ ListCmd
  \/ \E i \in ReplicaInputs : SetAttr("c1", "A", i[1], i[2]) /\ GwRest
  \/ SaveOpen("c1") /\ GwRest
  \/ SaveDump("c1") /\ GwRest
  \/ NotifyIssue("c1")
  \/ Start /\ FanRest
  \/ SendStep(Observer) /\ FanRest
  \/ Grant /\ FanRest

SpecReplica == Init /\ [][ReplicaNext]_vars

\* ---- SpecOthers: two names, written by a client, by sensor ticks and by
\* the upstream listener, over blobs that hold entries of their own for B
OthersKinds == { "dimmer", "humidity_sensor" }
OthersInputs == { <<"brightness", I(75)>>, <<"humidity", I(20)>>, <<"power", S("abc")>> }
\* a blob left by another run: a stale entry for B, or a number in its place
ForeignFile == DumpAll([n \in {"B"} |-> StaleEntry])
ForeignScalarFile == DumpAll([n \in {"B"} |-> [a \in {NotMapping} |-> I(5)]])
OthersFiles == { ForeignFile, ForeignScalarFile, FileCorrupt }

OthersNext ==
  \/ \E k \in OthersKinds : Register("A", k, "u1") /\ GwRest
  \/ \E k \in OthersKinds : Register("B", k, "") /\ GwRest
  \/ \E n \in Names, i \in OthersInputs : SetAttr("c1", n, i[1], i[2]) /\ GwRest
  \/ \E t \in Tasks : SaveOpen(t) /\ GwRest
  \/ \E t \in Tasks : SaveDump(t) /\ GwRest
  \/ \E t \in Tasks : Notify(t) /\ GwRest
  \/ \E n \in Names : Tick(n, TRUE) /\ GwRest
  \/ UpstreamEvent("u1", I(101)) /\ GwRest
  \/ \E f \in OthersFiles : FileEdited(f) /\ GwRest

SpecOthers == Init /\ [][OthersNext]_vars

\* ---- SpecLoops: one sensor of any kind and its auto_update task, with a
\* state file that can vanish and a broadcaster that can raise
LoopsInit ==
  /\ GwInit /\ WInit /\ FanInit /\ UpInit /\ LsInit /\ ChInit
  /\ bc = TRUE /\ orphans = [n \in Names |-> NoDevice] /\ obs = ObsStart
  /\ bg = [task |-> [k \in SensorKinds |-> "idle"], sd |-> "serving", i |-> 0]
LoopsRest == UNCHANGED <<wVars, fanVars, upVars, lsVars, chVars, bc, orphans, obs>>

\* startup_event: the one configured sensor is registered and its
\* auto_update task created
LoopStart(kind) ==
  /\ regOrder = << >>
  /\ Register("A", kind, "")
  /\ bg' = [bg EXCEPT !.task[kind] = "running"]
  /\ LoopsRest

\* One iteration of auto_update in its task.  TemperatureSensor calls
\* _persist_device_state outside any try, so its fault ends the coroutine;
\* the other three sensors catch it and go back to sleep.
LoopTick(hi) ==
  /\ Registered("A") /\ bg.task[devices["A"].kind] = "running"
  /\ Tick("A", hi)
  /\ bg' = IF lastOp'.res = "raised" /\ devices["A"].kind = "temperature_sensor"
           THEN [bg EXCEPT !.task["temperature_sensor"] = "failed"]
           ELSE bg
  /\ LoopsRest

\* task.cancel() reaches the loop in its sleep
LoopCancel ==
  /\ Registered("A") /\ bg.task[devices["A"].kind] = "running"
  /\ frame["sensor"].pc = "idle"
  /\ bg' = [bg EXCEPT !.task[devices["A"].kind] = "cancelled"]
  /\ UNCHANGED gwVars /\ LoopsRest

LoopsNext ==
  \/ \E k \in SensorKinds : LoopStart(k)
  \/ \E hi \in BOOLEAN : LoopTick(hi)
  \/ SaveOpen("sensor") /\ GwRest
  \/ SaveDump("sensor") /\ GwRest
  \/ Notify("sensor") /\ GwRest
  \/ NotifyRaises("sensor") /\ GwRest
  \/ FileRemoved /\ GwRest
  \/ FileEdited(FileCorrupt) /\ GwRest
  \/ LoopCancel

SpecLoops == LoopsInit /\ [][LoopsNext]_vars

\* ---- SpecClient: the upstream request client (core/larnitech_client.py)
\* The two places a controller can be reached at; LARNITECH_URL names one.
Endpoints == { "local", "remote" }
ApiOps == { "list_devices", "get_device_state", "set_device_state" }
\* What one requests.request + raise_for_status does: an answer with a 2xx
\* status, one of the faults requests reports as RequestException (timeout,
\* connection refused, 4xx/5xx status), or a fault of another class.
RequestFaults == { "timeout", "refused", "status" }
Outcomes == { "ok", "other" } \cup RequestFaults
\* the body of an answer: a JSON object with result true or false, a JSON
\* list, or text that is not JSON
Bodies == { "object_true", "object_false", "list", "garbled" }

\* variant: the same pause after every failed attempt
BackoffFlat(attempt) == 15
\* time.sleep(1.5 * attempt), in tenths
Backoff(attempt) == 15 * attempt

\* what list_devices / get_device_state / set_device_state make of the
\* response _request returned
ApiReturn(op, body) ==
  IF op = "set_device_state"
  THEN CASE body = "object_true"  -> "true"
         [] body = "object_false" -> "false"
         [] OTHER                 -> "false"
  ELSE IF body = "garbled" THEN "none" ELSE "data"

\* what they return when _request returned None
ApiFailure(op) == IF op = "set_device_state" THEN "false" ELSE "none"

\* a caller invokes one of the three API functions
ApiCall(op, url) ==
  /\ rq.pc \in { "idle", "done" }
  /\ rq' = [pc |-> "try", op |-> op, url |-> url, attempt |-> 1, log |-> << >>,
            ret |-> ""]

\* variant: the loop runs one attempt too many
RequestAttemptExtra(out, body) ==
  /\ rq.pc = "try"
  /\ LET a == rq.attempt
         wait == IF out \in RequestFaults /\ a <= MAX_RETRIES THEN Backoff(a) ELSE 0
         log == Append(rq.log, [ep |-> rq.url, out |-> out, wait |-> wait])
     IN  rq' = CASE out = "ok" ->
                      [rq EXCEPT !.pc = "done", !.log = log,
                                 !.ret = ApiReturn(rq.op, body)]
                 [] out \in RequestFaults /\ a <= MAX_RETRIES ->
                      [rq EXCEPT !.attempt = a + 1, !.log = log]
                 [] out \in RequestFaults ->
                      [rq EXCEPT !.pc = "done", !.log = log,
                                 !.ret = ApiFailure(rq.op)]
                 [] OTHER ->
                      [rq EXCEPT !.pc = "done", !.log = log, !.ret = "raised"]

\* one iteration of "for attempt in range(1, MAX_RETRIES + 1)", the sleep that
\* follows a failed attempt included, and the return when the loop ends
RequestAttempt(out, body) ==
  /\ rq.pc = "try"
  /\ LET a == rq.attempt
         wait == IF out \in RequestFaults /\ a < MAX_RETRIES THEN Backoff(a) ELSE 0
         log == Append(rq.log, [ep |-> rq.url, out |-> out, wait |-> wait])
     IN  rq' = CASE out = "ok" ->
                      [rq EXCEPT !.pc = "done", !.log = log,
                                 !.ret = ApiReturn(rq.op, body)]
                 [] out \in RequestFaults /\ a < MAX_RETRIES ->
                      [rq EXCEPT !.attempt = a + 1, !.log = log]
                 [] out \in RequestFaults ->
                      [rq EXCEPT !.pc = "done", !.log = log,
                                 !.ret = ApiFailure(rq.op)]
                 [] OTHER ->
                      [rq EXCEPT !.pc = "done", !.log = log, !.ret = "raised"]

UpRest == UNCHANGED <<gwVars, wVars, fanVars, lsVars, chVars, appVars>>

ClientNext ==
  \/ \E op \in ApiOps, url \in Endpoints : ApiCall(op, url) /\ UpRest
  \/ \E out \in Outcomes, body \in Bodies : RequestAttempt(out, body) /\ UpRest

SpecClient == Init /\ [][ClientNext]_vars

\* ---- SpecListener: the upstream streaming listener and the registry it feeds
\* variant: a fault ends the listener
AfterFaultStop(l) == [l EXCEPT !.pc = "dead"]

\* either except branch: log, then await asyncio.sleep(RECONNECT_DELAY)
AfterFault(l) == [l EXCEPT !.pc = "sleep"]

ListenerIdle == frame["upstream"].pc = "idle"
OtherRest == UNCHANGED <<wVars, fanVars, upVars, chVars, appVars>>

\* top of "while True": websockets.connect(...) is entered
Dial ==
  /\ ls.pc = "top"
  /\ ls' = [ls EXCEPT !.pc = "connecting", !.delayed = FALSE]
  /\ UNCHANGED gwVars /\ OtherRest

\* the connection is established: "async for message in ws" starts
ConnectOk ==
  /\ ls.pc = "connecting"
  /\ ls' = [ls EXCEPT !.pc = "open"]
  /\ UNCHANGED gwVars /\ OtherRest

\* websockets.connect raises (refused, OSError, handshake or any other fault)
ConnectFails ==
  /\ ls.pc = "connecting"
  /\ ls' = AfterFault(ls)
  /\ UNCHANGED gwVars /\ OtherRest

\* the open connection breaks: the iteration raises ConnectionClosedError / OSError
ConnectionLost ==
  /\ ls.pc = "open" /\ ListenerIdle
  /\ ls' = AfterFault(ls)
  /\ UNCHANGED gwVars /\ OtherRest

\* the controller closes the connection cleanly: the iteration ends, the
\* "async with" and the try are left without a fault and the loop goes round
CleanClose ==
  /\ ls.pc = "open" /\ ListenerIdle
  /\ ls' = [ls EXCEPT !.pc = "top"]
  /\ UNCHANGED gwVars /\ OtherRest

\* a message that is not JSON is skipped ("continue"); JSON that is not an
\* object makes data.get raise, which leaves the message loop
BadMessage(isJson) ==
  /\ ls.pc = "open" /\ ListenerIdle /\ AllIdle
  /\ ls' = IF isJson THEN AfterFault(ls) ELSE ls
  /\ lastOp' = Op("event", "", IF isJson THEN "raised" ELSE "skip",
                  IF isJson THEN "AttributeError" ELSE "invalid_json", EmptyState)
  /\ lastEvent' = NoEvent
  /\ UNCHANGED <<devices, regOrder, file, plock, frame, done>> /\ OtherRest

\* a message {"id": id, "value": val} on the open connection; a fault raised
\* by _persist_device_state leaves the message loop
Message(id, val) ==
  /\ ls.pc = "open"
  /\ UpstreamEvent(id, val)
  /\ ls' = IF lastOp'.res = "raised" THEN AfterFault(ls) ELSE ls
  /\ OtherRest

\* the broadcaster call of the handler returns, or raises and leaves the loop
MessageNotified ==
  /\ \/ Notify("upstream") /\ ls' = ls
     \/ NotifyRaises("upstream") /\ ls' = AfterFault(ls)
  /\ OtherRest

\* asyncio.sleep(RECONNECT_DELAY) in an except branch is over
Wake ==
  /\ ls.pc = "sleep"
  /\ ls' = [ls EXCEPT !.pc = "top", !.delayed = TRUE, !.wait = RECONNECT_DELAY]
  /\ UNCHANGED gwVars /\ OtherRest

\* devices registered with and without an upstream identifier
ListenerRegs == { <<k, l>> : k \in UpKinds, l \in {"", "u1"} }

ListenerNext ==
  \/ \E r \in ListenerRegs : Register("A", r[1], r[2]) /\ GwRest
  \/ Dial
  \/ ConnectOk
  \/ ConnectFails
  \/ ConnectionLost
  \/ CleanClose
  \/ \E j \in BOOLEAN : BadMessage(j)
  \/ \E id \in UpIds \cup {""}, v \in UpVals : Message(id, v)
  \/ SaveOpen("upstream") /\ GwRest
  \/ SaveDump("upstream") /\ GwRest
  \/ MessageNotified
  \/ Wake
  \/ Restart /\ ls' = ListenerStart /\ OtherRest

SpecListener == Init /\ [][ListenerNext]_vars

\* The event loop runs the listener task whenever it can proceed: the sleep
\* ends and the next connect is entered.
SpecListenerLive == SpecListener /\ WF_vars(Wake) /\ WF_vars(Dial)

\* ---- SpecShutdown: the background tasks of the application and
\* shutdown_event (api/websocket_api.py), with the listener at any point of
\* its loop
Finished(t) == bg.task[t] \in { "cancelled", "failed" }
ListenerRuns == bg.task["listener"] = "running"
ShutRest == UNCHANGED <<gwVars, wVars, fanVars, upVars, chVars, bc, orphans, obs>>

\* TemperatureSensor.auto_update calls _persist_device_state outside any
\* try: a fault of the store ends the task.  (The other sensors catch it; a
\* tick that goes back to sleep leaves the task as it is.)
SensorFails ==
  /\ bg.task["temperature_sensor"] = "running"
  /\ bg' = [bg EXCEPT !.task["temperature_sensor"] = "failed"]
  /\ UNCHANGED ls /\ ShutRest

\* the server begins its shutdown: shutdown_event reads gateway._tasks
ShutdownBegin ==
  /\ bg.sd = "serving"
  /\ bg' = [bg EXCEPT !.sd = "loop", !.i = 1]
  /\ UNCHANGED ls /\ ShutRest

\* one turn of "for task in tasks": a task that is done is passed over, any
\* other is cancelled and awaited; after the last one the handler returns
ShutdownVisit ==
  /\ bg.sd = "loop"
  /\ IF bg.i > Len(TaskList) THEN bg' = [bg EXCEPT !.sd = "complete"]
     ELSE IF Finished(TaskList[bg.i]) THEN bg' = [bg EXCEPT !.i = @ + 1]
     ELSE bg' = [bg EXCEPT !.task[TaskList[bg.i]] = "cancelling", !.sd = "await"]
  /\ UNCHANGED ls /\ ShutRest

\* variant: the listener's "except Exception" catches the cancellation (as
\* it did while CancelledError was an Exception) and the loop goes on
UnwindSwallowed(t) ==
  /\ bg.task[t] = "cancelling"
  /\ IF t = "listener"
     THEN bg' = [bg EXCEPT !.task[t] = "running"] /\ ls' = AfterFault(ls)
     ELSE bg' = [bg EXCEPT !.task[t] = "cancelled"] /\ ls' = ls
  /\ ShutRest

\* The cancelled task is resumed with CancelledError at the await it was
\* suspended in: asyncio.sleep in a sensor; connect, the message iteration
\* or the reconnect sleep in the listener.  No handler in these coroutines
\* catches it (they name Exception and subclasses of it), so the task ends
\* cancelled; leaving "async with" on an open connection first awaits the
\* closing of that connection.
Unwind(t) ==
  /\ bg.task[t] = "cancelling"
  /\ IF t = "listener" /\ ls.pc = "open"
     THEN ls' = [ls EXCEPT !.pc = "closing"] /\ bg' = bg
     ELSE /\ bg' = [bg EXCEPT !.task[t] = "cancelled"]
          /\ ls' = IF t = "listener" THEN [ls EXCEPT !.pc = "cancelled"] ELSE ls
  /\ ShutRest

\* "await task" raises CancelledError, which shutdown_event passes over
ShutdownResume ==
  /\ bg.sd = "await" /\ bg.task[TaskList[bg.i]] = "cancelled"
  /\ bg' = [bg EXCEPT !.sd = "loop", !.i = @ + 1]
  /\ UNCHANGED ls /\ ShutRest

ShutdownNext ==
  \/ ListenerRuns /\ Dial
  \/ ListenerRuns /\ ConnectOk
  \/ ListenerRuns /\ ConnectFails
  \/ ListenerRuns /\ ConnectionLost
  \/ ListenerRuns /\ CleanClose
  \/ ListenerRuns /\ Wake
  \/ SensorFails
  \/ ShutdownBegin
  \/ ShutdownVisit
  \/ \E t \in BgTasks : Unwind(t)
  \/ ShutdownResume

SpecShutdown == Init /\ [][ShutdownNext]_vars
\* the event loop runs every callback that is ready: the shutdown handler's
\* next step and the resumption of a cancelled task are taken
SpecShutdownLive ==
  /\ SpecShutdown
  /\ WF_vars(ShutdownVisit) /\ WF_vars(ShutdownResume)
  /\ WF_vars(\E t \in BgTasks : Unwind(t))

\* ---- SpecChannel: the command channel (websocket_endpoint) of one dashboard
\* client at a time, on a gateway with one dimmer.  The broadcast tasks the
\* set commands create are followed in SpecDash.
\* a "dev" field that is a JSON array or object
Unhashable == "<list>"
\* a field that is absent reads as None
Absent == "<none>"
ChDevs == { "A", "Ghost", Absent, Unhashable }
ChInputs == { <<"power", B(TRUE)>>, <<"brightness", I(75)>>,
              <<"brightness", S("x")>>, <<Absent, Null>> }
\* The text frames a client sends, by what json.loads makes of them: a
\* JSONDecodeError ("text"), a list ("array"), a number, string, boolean or
\* null ("scalar"), or a dict ("record") with its cmd, dev, attr and val.
ChMsg(shape, cmd, dev, attr, val) ==
  [shape |-> shape, cmd |-> cmd, dev |-> dev, attr |-> attr, val |-> val]
NotRecords == { ChMsg(sh, "", "", "", Null) : sh \in { "array", "scalar" } }
Queries ==
  { ChMsg("record", c, Absent, Absent, Null) : c \in { "list", "bogus", Absent } }
    \cup { ChMsg("record", "get", d, Absent, Null) : d \in ChDevs }
Sets == { ChMsg("record", "set", d, i[1], i[2]) : d \in ChDevs, i \in ChInputs }

\* manager.send_personal(websocket, resp) for the message just handled
Reply(c, m, status) == [c EXCEPT !.pc = "recv", !.msg = m, !.sent = 1, !.status = status]
\* an exception other than WebSocketDisconnect leaves websocket_endpoint: no
\* response is sent and manager.disconnect is not called
Escapes(c, m) == [c EXCEPT !.pc = "ended", !.msg = m, !.sent = 0, !.status = ""]
\* the server closes a connection whose handler has ended; the websocket
\* object stays in manager.active and sends to it raise
EndsHandler == broken' = broken \cup {ch.ws} /\ stable' = stable \ {ch.ws}
ChFanRest == UNCHANGED <<active, ready, waiters, pass, inbox, nMsgs, passLog>>
ChRest == UNCHANGED <<wVars, upVars, lsVars, appVars>>
\* dict.get(key) with a list or dict as key raises TypeError
Hashable(dev) == dev # Unhashable

\* a client connects: manager.connect, then the "connected" greeting
ChAccept(ws) ==
  /\ ch.pc \in { "closed", "ended" } /\ AllIdle
  /\ Connect(ws)
  /\ ch' = [pc |-> "recv", ws |-> ws, msg |-> NoMsg, sent |-> 0, status |-> ""]
  /\ UNCHANGED gwVars /\ ChRest

\* json.loads raises JSONDecodeError: invalid_json is sent, the loop goes on
ChInvalidJson ==
  /\ ch.pc = "recv" /\ AllIdle
  /\ ch' = Reply(ch, ChMsg("text", "", "", "", Null), "error")
  /\ UNCHANGED <<gwVars, fanVars>> /\ ChRest

\* the text is JSON but not an object: msg.get("cmd") raises AttributeError
ChNotRecord(m) ==
  /\ ch.pc = "recv" /\ AllIdle
  /\ ch' = Escapes(ch, m)
  /\ EndsHandler /\ ChFanRest
  /\ UNCHANGED gwVars /\ ChRest

\* cmd get, list, or anything else
ChQuery(m) ==
  /\ ch.pc = "recv" /\ AllIdle
  /\ IF m.cmd = "get" /\ ~Hashable(m.dev)
     THEN ch' = Escapes(ch, m) /\ EndsHandler
     ELSE /\ ch' = Reply(ch, m, IF \/ m.cmd = "list"
                                   \/ m.cmd = "get" /\ Registered(m.dev)
                                THEN "ok" ELSE "error")
          /\ UNCHANGED <<broken, stable>>
  /\ ChFanRest
  /\ UNCHANGED gwVars /\ ChRest

\* cmd set: gateway.set_device_attribute(dev, attr, val) up to its return or
\* to the save it starts
ChSet(m) ==
  /\ ch.pc = "recv" /\ AllIdle
  /\ IF ~Hashable(m.dev)
     THEN ch' = Escapes(ch, m) /\ EndsHandler /\ UNCHANGED gwVars
     ELSE /\ SetAttr("c1", m.dev, m.attr, m.val)
          /\ ch' = CASE lastOp'.res = "fail" -> Reply(ch, m, "error")
                      [] lastOp'.res = "raised" -> Escapes(ch, m)
                      [] OTHER -> [ch EXCEPT !.pc = "set", !.msg = m, !.sent = 0,
                                             !.status = ""]
          /\ IF lastOp'.res = "raised"
             THEN EndsHandler ELSE UNCHANGED <<broken, stable>>
  /\ ChFanRest /\ ChRest

\* set_device_attribute returns (True, None), whether or not the broadcaster
\* raised, and the ok response is sent
ChSetDone ==
  /\ ch.pc = "set"
  /\ Notify("c1") \/ NotifyRaises("c1")
  /\ ch' = Reply(ch, ch.msg, "ok")
  /\ UNCHANGED fanVars /\ ChRest

\* the client closes: WebSocketDisconnect, manager.disconnect(websocket)
ChHangup ==
  /\ ch.pc = "recv" /\ AllIdle
  /\ Hangup(ch.ws)
  /\ ch' = ChClosed
  /\ UNCHANGED gwVars /\ ChRest

ChannelNext ==
  \/ Register("A", "dimmer", "") /\ GwRest
  \/ \E ws \in Sockets : ChAccept(ws)
  \/ ChInvalidJson
  \/ \E m \in NotRecords : ChNotRecord(m)
  \/ \E m \in Queries : ChQuery(m)
  \/ \E m \in Sets : ChSet(m)
  \/ SaveOpen("c1") /\ GwRest
  \/ SaveDump("c1") /\ GwRest
  \/ ChSetDone
  \/ ChHangup

SpecChannel == Init /\ [][ChannelNext]_vars

\* ------------------------------------------------------------------ claims

\* C1: after a successful setAttribute(name, attr, val) the blob read by
\* loadAll() has an entry for name equal to the device's full read() state,
\* and a fresh process started right after it loads the same entry.
C1_SetReflectedInBlob ==
  /\ (lastOp.op = "set" /\ lastOp.res = "ok") =>
        /\ ~LoadAll(file).raised
        /\ lastOp.name \in DOMAIN LoadAll(file).data
        /\ LoadAll(file).data[lastOp.name] = ReadState(devices[lastOp.name])
  /\ lastOp.op = "set_restart" =>
        /\ ~LoadAll(file).raised
        /\ lastOp.name \in DOMAIN LoadAll(file).data
        /\ LoadAll(file).data[lastOp.name] = lastOp.st
C1_Witness ==
  /\ lastOp.op = "set_restart"
  /\ "brightness" \in DOMAIN lastOp.st
  /\ lastOp.st["brightness"] = I(75) /\ lastOp.st["power"] = B(TRUE)

\* C2: a setAttribute that fails returns device_not_found for an unregistered
\* name and invalid_attribute_or_value for a rejected write, and the step
\* changes no device state, does not touch the blob, starts no save and hands
\* no event to the broadcaster.
C2_FailedSetHasNoEffect ==
  [][ (lastOp'.op = "set" /\ lastOp'.res = "fail") =>
        /\ lastOp'.err = IF Registered(lastOp'.name)
                         THEN "invalid_attribute_or_value" ELSE "device_not_found"
        /\ devices' = devices
        /\ file' = file
        /\ frame' = frame
        /\ lastEvent' = NoEvent ]_vars
C2_Witness ==
  /\ lastOp.op = "set" /\ lastOp.res = "fail"
  /\ lastOp.err = "invalid_attribute_or_value"
  /\ devices["A"].kind = "thermostat"
  /\ devices["A"].state # DefaultState("thermostat")
  /\ "A" \in DOMAIN LoadAll(file).data

\* C3: for every device kind, attribute and value, a write that returns
\* failure leaves read() as it was before the call.
C3_RejectedWriteChangesNothing ==
  (wLast.attr # "" /\ ~wLast.ok) => ReadState(wDev) = wLast.before
C3_Witness ==
  /\ wLast.attr = "brightness" /\ wLast.val = I(101) /\ ~wLast.ok
  /\ wDev.kind = "dimmer" /\ wDev.state["brightness"] = I(75)

\* C4: in every reachable state every declared attribute of every registered
\* device satisfies its kind's rule: power and leak boolean, brightness an
\* integer in [0,100], mode one of heat/cool/auto in lowercase, setpoint an
\* integer in [10,30], humidity in [0,100].
AttrRule(a, v) ==
  CASE a \in {"power", "leak"} -> IsBool(v)
    [] a = "brightness" -> v.t = "int" /\ 0 <= v.n /\ v.n <= 100
    [] a = "mode"       -> v \in { S("heat"), S("cool"), S("auto") }
    [] a = "setpoint"   -> v.t = "int" /\ 10 <= v.n /\ v.n <= 30
    [] a = "humidity"   -> v.t = "float" /\ ~IsNaN(v) /\ 0 <= v.n /\ v.n <= 1000
    [] OTHER            -> TRUE
C4_DeclaredAttributesValid ==
  \A n \in Names : Registered(n) =>
    \A a \in DeclaredAttrs(devices[n].kind) :
      a \in DOMAIN devices[n].state /\ AttrRule(a, devices[n].state[a])
C4_Witness ==
  /\ devices["A"].kind = "humidity_sensor"
  /\ "value" \in DOMAIN devices["A"].state
  /\ devices["A"].state["value"] = I(101)
  /\ lastOp.op = "event" /\ lastOp.res = "ok"

C6_BroadcastDeliversOnce ==
  passLog.msg # 0 =>
    /\ \A ws \in passLog.snap \ broken : Count(inbox[ws], passLog.msg) = 1
    /\ \A ws \in Sockets : Count(inbox[ws], passLog.msg) <= 1
    /\ passLog.failed \cap active = {}
    /\ passLog.snap \cap broken \subseteq passLog.failed \cup
          { ws \in Sockets : Count(inbox[ws], passLog.msg) = 1 }
C6_Witness ==
  /\ passLog.msg # 0
  /\ passLog.failed # {}
  /\ \E ws \in passLog.snap \ broken : Count(inbox[ws], passLog.msg) = 1
  /\ passLog.failed \cap active = {}

\* C7: a subscriber that is in the set from before the first update event and
\* is never closed has received the events 1, 2, ... in issue order, each
\* once, and all of them once every broadcast task has run.
AllDelivered ==
  /\ ready = << >> /\ pass.msg = 0
  /\ \A i \in 1..Len(waiters) : waiters[i].kind # "broadcast"
C7_StableSubscribersGetAllInOrder ==
  \A ws \in stable :
    /\ Len(inbox[ws]) <= nMsgs
    /\ \A i \in 1..Len(inbox[ws]) : inbox[ws][i] = i
    /\ AllDelivered => Len(inbox[ws]) = nMsgs
C7_Witness ==
  /\ \E ws \in stable : Len(inbox[ws]) >= 2 /\ AllDelivered
  /\ \E ws \in Sockets \ active : inbox[ws] # << >>
  /\ \E ws \in active \ stable : inbox[ws] # << >> /\ inbox[ws][1] > 1

\* C8: two setAttribute calls of different clients on different devices never
\* interleave their load/modify/save sequences, and when both have succeeded
\* the blob holds the current state of both devices.
C8_NoLostUpdate ==
  /\ Cardinality({ t \in Tasks : frame[t].pc # "idle" }) <= 1
  /\ AllIdle =>
       \A c \in Clients : done[c] # "" =>
         /\ done[c] \in DOMAIN LoadAll(file).data
         /\ LoadAll(file).data[done[c]] = ReadState(devices[done[c]])
C8_Witness ==
  /\ AllIdle /\ done["c1"] = "A" /\ done["c2"] = "B"
  /\ devices["A"].state # DefaultState(devices["A"].kind)
  /\ devices["B"].state # DefaultState(devices["B"].kind)

\* C9: the durable blob is a complete mapping at every instant: no state, and
\* no crash, shows an empty or partially written file.
C9_BlobNeverTorn == file.kind \notin { "empty", "partial" }

\* C10: loadAll() never raises: for a missing, empty, corrupt or non-mapping
\* blob it returns {}.
C10_LoadAllNeverRaises ==
  lastOp.op = "load" =>
    /\ lastOp.res = "ok"
    /\ file.kind # "map" => lastOp.data = EmptyMap

\* C11: registering a new default device under a name whose persisted entry
\* was produced by successful setAttribute calls on a device of the same kind
\* leaves the device's read() equal to that entry.
C11_RestoreRoundTrips ==
  (lastOp.op = "register" /\ lastOp.res = "ok"
     /\ "A" \in DOMAIN LoadAll(file).data) =>
    ReadState(devices["A"]) = LoadAll(file).data["A"]

\* C12: when the broadcaster raises, the setAttribute that called it still
\* returns (true, no error), and the device's state and its persisted entry
\* both hold the value written.
C12_BroadcasterFaultSwallowed ==
  (lastEvent.fault /\ lastOp.op = "set") =>
    LET dev == devices[lastOp.name]
        w == WriteState(dev.kind, dev.state, lastEvent.attr, lastEvent.val)
    IN  /\ lastOp.res = "ok" /\ lastOp.err = ""
        /\ w.ok /\ w.state = dev.state
        /\ GetEntry(LoadAll(file).data, lastOp.name) = ReadState(dev)
C12_Witness ==
  /\ lastEvent.fault /\ lastOp.op = "set" /\ lastOp.res = "ok"
  /\ devices["A"].kind = "thermostat" /\ lastEvent.val = S("HEAT")
  /\ devices["A"].state["mode"] = S("heat")

\* C13: the step in which a successful setAttribute(name, attr, val) returns
\* creates exactly one broadcast of the event {dev: name, attr: attr, val: val};
\* no other step, a failed setAttribute included, creates one; and every
\* subscriber that stays live has each event once when the broadcasts are done.
SetReturns == frame["c1"].pc = "notify" /\ frame'["c1"].pc = "idle"
C13_OneEventPerSuccessfulSet ==
  /\ [][ /\ SetReturns =>
              /\ lastOp'.op = "set" /\ lastOp'.res = "ok"
              /\ nMsgs' = nMsgs + 1 /\ ready' = Append(ready, nMsgs + 1)
              /\ lastEvent'.dev = frame["c1"].name
              /\ lastEvent'.attr = frame["c1"].attr
              /\ lastEvent'.val = frame["c1"].val
         /\ ~SetReturns => (nMsgs' = nMsgs /\ Len(ready') <= Len(ready)) ]_vars
  /\ [](\A ws \in Sockets :
          /\ \A m \in 1..nMsgs : Count(inbox[ws], m) <= 1
          /\ (ws \in stable /\ AllDelivered) =>
                \A m \in 1..nMsgs : Count(inbox[ws], m) = 1)
C13_Witness ==
  /\ nMsgs >= 2 /\ AllDelivered /\ Cardinality(stable) = 2
  /\ \A ws \in stable : Len(inbox[ws]) = nMsgs
  /\ lastOp.op = "set" /\ lastOp.res = "fail"

\* C14: a request makes at most MAX_RETRIES calls; when the endpoint fails
\* the first k < MAX_RETRIES attempts and then answers, k + 1 calls were made,
\* the answer is the last call and is returned; when every attempt failed,
\* exactly MAX_RETRIES calls were made and the result is the failure value.
Failed(i) == rq.log[i].out \in RequestFaults
C14_BoundedRetries ==
  /\ Len(rq.log) <= MAX_RETRIES
  /\ \A i \in 1..Len(rq.log) : rq.log[i].out = "ok" => (i = Len(rq.log) /\ rq.pc = "done")
  /\ rq.pc = "try" => (Len(rq.log) = rq.attempt - 1 /\ \A i \in 1..Len(rq.log) : Failed(i))
  /\ (rq.pc = "done" /\ rq.log[Len(rq.log)].out = "ok") =>
        /\ \A i \in 1..(Len(rq.log) - 1) : Failed(i)
        /\ rq.ret \in { "data", "true", "false", "none" }
  /\ (rq.pc = "done" /\ \A i \in 1..Len(rq.log) : Failed(i)) =>
        /\ Len(rq.log) = MAX_RETRIES
        /\ rq.ret = ApiFailure(rq.op)
C14_Witness ==
  /\ rq.pc = "done" /\ Len(rq.log) = 3
  /\ Failed(1) /\ Failed(2) /\ rq.log[3].out = "ok" /\ rq.ret = "data"

\* C15: whatever fault an attempt ends with, list_devices and
\* get_device_state return None and set_device_state returns False; no call
\* ends with a fault raised to its caller.
C15_NoFaultReachesCaller ==
  rq.pc = "done" =>
    /\ rq.ret # "raised"
    /\ rq.log[Len(rq.log)].out # "ok" => rq.ret = ApiFailure(rq.op)

\* C16: every request contacts the local endpoint first, and the remote one
\* only after a failed local attempt.
C16_LocalEndpointFirst ==
  \A i \in 1..Len(rq.log) :
    /\ i = 1 => rq.log[i].ep = "local"
    /\ rq.log[i].ep = "remote" =>
          \E j \in 1..(i - 1) : rq.log[j].ep = "local" /\ rq.log[j].out # "ok"

\* C17: whenever the listener is neither connected nor connecting (after a
\* failed connect, a lost or closed connection, or a fault while handling a
\* message) it eventually enters a new connection attempt, however many
\* failures came before.
C17_ListenerAlwaysReconnects ==
  (ls.pc \notin { "open", "connecting" }) ~> (ls.pc = "connecting")
C17_Witness ==
  /\ ls.pc = "connecting" /\ ~ls.delayed /\ ls.wait = RECONNECT_DELAY
  /\ lastEvent.fault /\ lastOp.op = "event" /\ lastOp.res = "raised"

\* C18: the listener is at the point of making a connection attempt only
\* when the reconnect delay has elapsed since the previous connection ended
\* (or no attempt was made yet).
C18_DelayBeforeEveryReconnect == ls.pc = "top" => ls.delayed

\* C19: an inbound message {id, value} whose id is the upstream identifier
\* of a registered device stores value under "value" in that device's state
\* and in no other, and starts the rewrite of that device's persisted entry
\* with the new state; when the handler is through, the entry equals the
\* state and one event {dev, attr "value", val value} has been handed over.
\* A message with no id or an id no device carries changes nothing.
C19_UpstreamEventApplied ==
  /\ [][ \A id \in UpIds \cup {""}, v \in UpVals :
           Message(id, v) =>
             IF id # "" /\ \E n \in Names : Registered(n) /\ devices[n].lid = id
             THEN \E n \in Names :
                    /\ Registered(n) /\ devices[n].lid = id
                    /\ devices' = [devices EXCEPT ![n].state = Put(@, "value", v)]
                    /\ frame'["upstream"].pc = "open"
                    /\ frame'["upstream"].data[n] = devices'[n].state
                    /\ frame'["upstream"].val = v
             ELSE /\ devices' = devices /\ file' = file /\ frame' = frame
                  /\ lastEvent' = NoEvent /\ ls' = ls ]_vars
  /\ []((lastOp.op = "event" /\ lastEvent.dev # "") =>
          /\ lastEvent.dev = lastOp.name /\ lastEvent.attr = "value"
          /\ devices[lastEvent.dev].state["value"] = lastEvent.val
          /\ GetEntry(LoadAll(file).data, lastEvent.dev) = ReadState(devices[lastEvent.dev]))
C19_Witness ==
  /\ lastOp.op = "event" /\ lastOp.res = "ok" /\ lastEvent.val = I(101)
  /\ devices["A"].kind = "lamp" /\ devices["A"].lid = "u1"
  /\ LoadAll(file).data["A"]["value"] = I(101)

\* C20: every message on the command channel, whatever its content, gets
\* exactly one response with status ok or error, and afterwards the
\* connection is open, in ConnectionManager.active, and reading the next one.
C20_EveryMessageAnswered ==
  (ch.msg # NoMsg /\ ch.pc # "set") =>
    /\ ch.sent = 1 /\ ch.status \in { "ok", "error" }
    /\ ch.pc = "recv" /\ ch.ws \in active \ broken

\* C21: for every device kind and declared attribute, a write of a value of
\* the attribute's declared type inside its declared range returns success
\* and the read that follows shows that value under that attribute.
InDeclaredRange(a, v) ==
  CASE a \in {"power", "leak"} -> IsBool(v)
    [] a = "brightness"  -> v.t = "int" /\ 0 <= v.n /\ v.n <= 100
    [] a = "setpoint"    -> v.t = "int" /\ 10 <= v.n /\ v.n <= 30
    [] a = "mode"        -> v \in { S("heat"), S("cool"), S("auto") }
    [] a = "temperature" -> v.t = "float" /\ ~IsNaN(v)
    [] a = "humidity"    -> v.t = "float" /\ ~IsNaN(v) /\ 0 <= v.n /\ v.n <= 1000
    [] a = "lux"         -> v.t = "float" /\ ~IsNaN(v) /\ 0 <= v.n /\ v.n <= 100000
    [] OTHER             -> FALSE
Conforms(a, v) ==
  \/ InDeclaredRange(a, v)
  \/ /\ a \in {"temperature", "humidity", "lux"} /\ v.t = "int"
     /\ InDeclaredRange(a, F(10 * v.n))
C22_InvalidWriteFails ==
  ( /\ wLast.attr \in DeclaredAttrs(wDev.kind)
    /\ wLast.val.t \in {"bool", "int", "float", "str"}
    /\ ~Conforms(wLast.attr, wLast.val) ) => ~wLast.ok

\* C23: on a dimmer in any state, write("brightness", b) with an integer
\* 0 < b <= 100 succeeds and the read that follows has power true and
\* brightness b; write("brightness", 0) succeeds and leaves power as it was.
C23_BrightnessTurnsOn ==
  (wDev.kind = "dimmer" /\ wLast.attr = "brightness" /\ wLast.val.t = "int") =>
    /\ (0 < wLast.val.n /\ wLast.val.n <= 100) =>
         /\ wLast.ok
         /\ ReadState(wDev) = [power |-> B(TRUE), brightness |-> wLast.val]
    /\ wLast.val.n = 0 =>
         /\ wLast.ok
         /\ ReadState(wDev) = [power |-> wLast.before["power"], brightness |-> I(0)]
C23_Witness ==
  /\ wDev.kind = "dimmer" /\ wLast.attr = "brightness" /\ wLast.val = I(100)
  /\ wLast.before = [power |-> B(FALSE), brightness |-> I(1)]
  /\ ReadState(wDev) = [power |-> B(TRUE), brightness |-> I(100)]

\* C24: on a thermostat write("mode", m) succeeds exactly when m is a string
\* that spells heat, cool or auto in any letter case; after a success the
\* mode read back is m in lowercase; writing a lowercase mode the device
\* already holds leaves the state as the first write left it.
ModeSpellings == { <<"HEAT", "heat">>, <<"Auto", "auto">>, <<"cool", "cool">> }
C24_ModeCaseFolded ==
  (wDev.kind = "thermostat" /\ wLast.attr = "mode") =>
    /\ wLast.ok <=> (IsStr(wLast.val) /\ \E p \in ModeSpellings : p[1] = wLast.val.s)
    /\ wLast.ok => \E p \in ModeSpellings :
                     p[1] = wLast.val.s /\ ReadState(wDev)["mode"] = S(p[2])
    /\ (wLast.ok /\ wLast.before["mode"] = wLast.val) => ReadState(wDev) = wLast.before
C24_Witness ==
  /\ wDev.kind = "thermostat" /\ wLast.attr = "mode" /\ wLast.val = S("HEAT")
  /\ wLast.ok /\ wLast.before["mode"] = S("cool")
  /\ ReadState(wDev)["mode"] = S("heat")

\* C25: register(device) completes and leaves the device registered whatever
\* the blob holds under its name; every attribute of the entry that is
\* declared for the kind and whose value is of the declared type and range
\* is applied, whatever else the entry holds.
C25_RegisterAlwaysCompletes ==
  lastOp.op = "register" =>
    /\ lastOp.res = "ok"
    /\ Registered(lastOp.name)
    /\ LET e == GetEntry(LoadAll(file).data, lastOp.name)
           d == devices[lastOp.name]
       IN  \A a \in DeclaredAttrs(d.kind) :
             (a \in DOMAIN e /\ InDeclaredRange(a, e[a])) => d.state[a] = e[a]

\* C26: a register(d) step leaves d under d.name, also when the name was in
\* use: the device found there afterwards has d's kind, d's upstream
\* identifier and exactly the attributes of d's kind, and nothing of the
\* instance it replaced; the replacement takes place whether or not the
\* restore that follows it faults.  No step but a restart of the process
\* takes a name out of the set of registered names.
C26_RegisterReplacesNeverShrinks ==
  /\ [][ \A r \in RegInputs :
           Register("A", r[1], r[2]) =>
             /\ devices'["A"].kind = r[1] /\ devices'["A"].lid = r[2]
             /\ DOMAIN ReadState(devices'["A"]) = DeclaredAttrs(r[1])
             /\ ReadState(devices'["A"]) = lastOp'.st ]_vars
  /\ [][ \/ \A n \in Names : Registered(n) => Registered(n)'
         \/ lastOp'.op \in {"restart", "set_restart"} ]_vars
  /\ [](lastOp.op = "register" => Registered(lastOp.name))
C26_Witness ==
  /\ lastOp.op = "register" /\ lastOp.res = "ok" /\ lastOp.prev = "lamp"
  /\ devices["A"].kind = "dimmer"
  /\ "value" \in DOMAIN GetEntry(LoadAll(file).data, "A")
  /\ DOMAIN ReadState(devices["A"]) = {"power", "brightness"}

\* C27: what a setAttribute call returns and what it leaves in the device
\* states and in the blob is the same on a gateway with a broadcaster and on
\* one without: the step that ends a successful call changes no device and
\* not the file and returns ok with the device's state either way; after it
\* the blob entry equals the device state; a failed call returns its error
\* kind either way.  The one difference is the event: one per successful
\* call with a broadcaster, none ever without.
C27_BroadcasterOnlyAddsEvents ==
  /\ [][ (frame["c1"].pc = "notify" /\ frame'["c1"].pc = "idle") =>
           LET f == frame["c1"]
           IN  /\ devices' = devices /\ file' = file /\ regOrder' = regOrder
               /\ lastOp'.op = "set" /\ lastOp'.res = "ok" /\ lastOp'.name = f.name
               /\ lastOp'.st = ReadState(devices[f.name])
               /\ done'["c1"] = f.name
               /\ lastEvent'.dev = (IF bc THEN f.name ELSE "")
               /\ bc => (lastEvent'.attr = f.attr /\ lastEvent'.val = f.val) ]_vars
  /\ []((lastOp.op = "set" /\ lastOp.res = "ok") =>
          GetEntry(LoadAll(file).data, lastOp.name) = ReadState(devices[lastOp.name]))
  /\ []((lastOp.op = "set" /\ lastOp.res = "fail") =>
          lastOp.err = (IF Registered(lastOp.name) THEN "invalid_attribute_or_value"
                        ELSE "device_not_found"))
  /\ [](~bc => lastEvent = NoEvent)
C27_Witness ==
  /\ ~bc /\ lastOp.op = "set" /\ lastOp.res = "ok" /\ lastEvent = NoEvent
  /\ devices["A"].kind = "dimmer"
  /\ ReadState(devices["A"]) = [power |-> B(TRUE), brightness |-> I(75)]
  /\ GetEntry(LoadAll(file).data, "A") = [power |-> B(TRUE), brightness |-> I(75)]

\* C28: once shutdown has begun it completes, and when it has completed
\* every sensor task and the listener task has ended (cancelled, or failed
\* earlier), whichever await each was suspended in when it was cancelled.
C28_ShutdownCancelsAll ==
  /\ (bg.sd = "loop") ~> (bg.sd = "complete")
  /\ [](bg.sd = "complete" => \A t \in BgTasks : Finished(t))
C28_Witness ==
  /\ bg.sd = "complete" /\ ls.pc = "cancelled" /\ ~ls.delayed
  /\ bg.task["temperature_sensor"] = "failed"
  /\ bg.task["leak_sensor"] = "cancelled"

\* C29: writes to one device do not interleave: while one write (a client's
\* setAttribute or a sensor tick) is between its mutation and its event no
\* other task is inside a write and no device changes; at the step that
\* ends it the device state, the device's blob entry and the event issued
\* are the ones that write produced.
C29_SameDeviceWritesSerialized ==
  /\ [][ lastOp'.op \notin {"restart", "set_restart"} =>
           \A t \in Tasks :
             /\ frame[t].pc # "idle" =>
                  /\ \A u \in Tasks \ {t} : frame[u].pc = "idle" /\ frame'[u].pc = "idle"
                  /\ devices' = devices
             /\ (frame[t].pc = "notify" /\ frame'[t].pc = "idle") =>
                  LET f == frame[t]
                  IN  /\ ReadState(devices'[f.name]) = f.data[f.name]
                      /\ GetEntry(LoadAll(file').data, f.name) = f.data[f.name]
                      /\ lastEvent'.dev = f.name /\ lastEvent'.attr = f.attr
                      /\ lastEvent'.val = f.val ]_vars
C29_Witness ==
  /\ devices["A"].kind = "leak_sensor" /\ done["c1"] = "A" /\ done["c2"] = "A"
  /\ lastOp.op = "tick" /\ lastOp.res = "ok" /\ lastEvent.dev = "A"
  /\ lastEvent.val = B(FALSE)
  /\ ReadState(devices["A"]) = [leak |-> B(FALSE)]
  /\ GetEntry(LoadAll(file).data, "A") = [leak |-> B(FALSE)]

\* C30: a sensor tick with reading r does what a successful
\* setAttribute(name, attr, r) does: r is a value the device's own write
\* accepts (and lies in the attribute's declared range), the state after the
\* tick is the state that write would leave, the save it starts carries that
\* state, and when the tick is through the device registered under the name
\* holds r, its blob entry equals its state and one event {dev, attr, val r}
\* has been handed over.
ReadingAttr == [temperature_sensor |-> "temperature", humidity_sensor |-> "humidity",
                light_sensor |-> "lux", leak_sensor |-> "leak"]
C30_TickIsAWrite ==
  /\ [][ \A hi \in BOOLEAN :
           Tick("A", hi) =>
             LET k == devices["A"].kind
                 a == ReadingAttr[k]
                 r == devices'["A"].state[a]
                 w == WriteState(k, devices["A"].state, a, r)
             IN  /\ InDeclaredRange(a, r)
                 /\ w.ok /\ w.state = devices'["A"].state
                 /\ lastOp'.res = "raised" <=> LoadAll(file).raised
                 /\ lastOp'.res # "raised" =>
                      /\ frame'["sensor"].attr = a /\ frame'["sensor"].val = r
                      /\ frame'["sensor"].data["A"] = w.state ]_vars
  /\ []((lastOp.op = "tick" /\ lastOp.res = "ok") =>
          /\ lastEvent.dev = lastOp.name
          /\ devices[lastOp.name].kind \in SensorKinds
          /\ lastEvent.attr = ReadingAttr[devices[lastOp.name].kind]
          /\ lastEvent.val = devices[lastOp.name].state[lastEvent.attr]
          /\ GetEntry(LoadAll(file).data, lastOp.name) = ReadState(devices[lastOp.name]))

\* C31: the membership set changes only while no broadcast pass enumerates
\* it.  While a pass holds the lock the set equals the list the pass copied;
\* the only step of a pass that changes the set is its last one, which takes
\* out exactly the websockets whose send failed; a connect or a disconnect
\* issued during a pass changes nothing and waits in the lock's queue, and a
\* queued connect or disconnect is carried out only by a step that starts
\* with no pass in progress.
C31_MembershipChangesOutsidePass ==
  /\ [](pass.msg # 0 => active = pass.snap /\ pass.todo \subseteq pass.snap)
  /\ [][ pass.msg # 0 =>
           \/ active' = active
           \/ /\ pass'.msg = 0 /\ passLog'.msg = pass.msg
              /\ active' = active \ passLog'.failed ]_vars
  /\ [][ \A ws \in Sockets :
           pass.msg # 0 /\ (Connect(ws) \/ Hangup(ws)) =>
             /\ active' = active /\ pass' = pass
             /\ Len(waiters') = Len(waiters) + 1
             /\ waiters'[Len(waiters')].ws = ws ]_vars
  /\ [][ Len(waiters') < Len(waiters) => pass.msg = 0 ]_vars
C31_Witness ==
  /\ passLog.msg # 0 /\ passLog.failed # {} /\ passLog.after # passLog.snap
  /\ \E ws \in Sockets : Pending("connect", ws) /\ ws \notin active
  /\ \E ws \in Sockets : Pending("disconnect", ws) /\ ws \in active

\* C32: when the persistence step of a set fails after the device accepted
\* the write, the call still returns a (success, errorKind) pair and does not
\* raise, and the device keeps the written state.
C32_PersistFaultIsReturned ==
  [][ \A i \in SetInputs :
        LET w == WriteState(devices["A"].kind, devices["A"].state, i[1], i[2])
        IN  ( /\ SetAttr("c1", "A", i[1], i[2]) /\ Registered("A") /\ w.ok
              /\ LoadAll(file).raised ) =>
              /\ lastOp'.res # "raised"
              /\ devices'["A"].state = w.state ]_vars

\* C33: a channel is in the membership set exactly while its command handler
\* serves it: it is a member while the handler waits for or handles a
\* message (no delivery to it having failed), and once the handler has
\* ended, for whatever reason, it is a member no longer.
C33_MemberWhileServed ==
  /\ ch.pc \in { "recv", "set" } => ch.ws \in active
  /\ ch.pc \in { "closed", "ended" } => ch.ws \notin active

\* C34: a dashboard that stays connected, takes the states of its list
\* response and applies each update event it receives afterwards, in order,
\* as replica[dev][attr] := val, holds the registry's device states whenever
\* every broadcast issued so far has been delivered and no set is under way.
RECURSIVE ApplyEvents(_, _, _)
ApplyEvents(copy, q, i) ==
  IF i > Len(q) THEN copy
  ELSE LET e == obs.log[q[i]]
       IN  ApplyEvents(PutEntry(copy, e.dev, Put(GetEntry(copy, e.dev), e.attr, e.val)),
                       q, i + 1)
Replica == ApplyEvents(obs.snap, inbox[Observer], obs.pos + 1)
Quiet == ready = << >> /\ waiters = << >> /\ pass.msg = 0 /\ AllIdle
\* two values a JSON reader cannot tell apart: the same value, or an integer
\* and a float of the same magnitude
SameJson(a, b) ==
  \/ a = b
  \/ /\ a.t = "int" /\ b.t = "float" /\ b.s = "" /\ b.n = 10 * a.n
  \/ /\ b.t = "int" /\ a.t = "float" /\ a.s = "" /\ a.n = 10 * b.n
SameStates(x, y) ==
  /\ DOMAIN x = DOMAIN y
  /\ \A n \in DOMAIN x :
       /\ DOMAIN x[n] = DOMAIN y[n]
       /\ \A a \in DOMAIN x[n] : SameJson(x[n][a], y[n][a])
C34_ReplicaEqualsRegistry ==
  (obs.snap # NoSnap /\ Observer \in stable /\ Quiet) =>
    SameStates(Replica, GetAllDevices)

\* C35: the val of the update event issued for a successful set equals what
\* the device's read_state() shows for that attribute right after the write
\* (an integer and a float of the same magnitude counted as equal).
C35_EventValueIsStoredValue ==
  (lastOp.op = "set" /\ lastOp.res = "ok" /\ lastEvent.dev # "") =>
    /\ lastEvent.attr \in DOMAIN lastEvent.mem
    /\ SameJson(lastEvent.val, lastEvent.mem[lastEvent.attr])

\* C36: the attribute names of every registered device's state are the ones
\* declared for its kind, and so are the names of the entry a completed
\* write has persisted.
C36_AttributeNamesFixed ==
  /\ \A n \in Names :
       Registered(n) => DOMAIN devices[n].state = DeclaredAttrs(devices[n].kind)
  /\ lastEvent.dev # "" =>
       DOMAIN lastEvent.blob = DeclaredAttrs(devices[lastEvent.dev].kind)

\* C37: a write to one device (set, tick or upstream event) changes no other
\* device in memory, and the blob it saves holds, for every other name, the
\* entry the blob held when the write began: the mapping built for the save
\* differs from the loaded one in the written name only, it is not changed
\* between open and dump, and the file read back after the dump gives that
\* mapping again.
OtherNames(data, name) == ((DOMAIN data) \cup Names) \ {name}
C37_OtherDevicesUntouched ==
  /\ [][ \A m \in Names :
           devices'[m] # devices[m] =>
             lastOp'.name = m /\ lastOp'.op \in { "register", "set", "tick", "event" }
       ]_vars
  /\ [][ \A t \in Tasks :
           (frame[t].pc = "idle" /\ frame'[t].pc = "open") =>
             LET old == LoadAll(file).data
                 new == frame'[t].data
             IN  /\ DOMAIN new = (DOMAIN old) \cup {frame'[t].name}
                 /\ \A m \in DOMAIN old : m # frame'[t].name => new[m] = old[m] ]_vars
  /\ [][ \A t \in Tasks :
           frame[t].pc \in { "open", "dump" } =>
             /\ frame'[t].pc # "idle" => frame'[t].data = frame[t].data
             /\ frame[t].pc = "dump" => LoadAll(file').data = frame[t].data ]_vars
C37_Witness ==
  /\ lastOp.op = "event" /\ lastOp.res = "ok" /\ lastOp.name = "A"
  /\ Registered("B") /\ devices["B"].state # DefaultState(devices["B"].kind)
  /\ GetEntry(LoadAll(file).data, "B") = LoadState(DumpState(StaleEntry))

\* C38: a tick whose persisting or broadcasting failed does not end the
\* sensor's loop: the auto_update task of a registered sensor is running
\* until it is cancelled, and it is running right after a failed tick.
C38_FailedTickKeepsLoop ==
  /\ \A k \in SensorKinds : bg.task[k] \in { "idle", "running", "cancelled" }
  /\ (lastOp.op = "tick" /\ (lastOp.res = "raised" \/ lastEvent.fault)) =>
       bg.task[devices["A"].kind] \in { "running", "cancelled" }

\* C39: the mapping read_state() returns, and each device's mapping in what
\* get_all_devices() returns, is independent of the device's state: a caller
\* changing the mapping it holds does not change what the device reads next.
C39_ReturnedMappingIndependent ==
  [][ \A i \in ReadInputs :
        CallerAssigns(i[1], i[2]) => ReadState(wDev') = ReadState(wDev) ]_vars

\* C40: in the retry loop the pause between failed attempt a and attempt
\* a + 1 is 1.5 * a seconds (15 * a tenths), so the pauses strictly increase;
\* an attempt is followed by another one only if it failed and was not the
\* last of the budget, and no pause follows the attempt that ends the call,
\* be it a success or the final failure.
C40_LinearBackoff ==
  \A i \in 1..Len(rq.log) :
    IF i < Len(rq.log) \/ rq.pc = "try"
    THEN /\ rq.log[i].out \in RequestFaults /\ i < MAX_RETRIES
         /\ rq.log[i].wait = 15 * i
         /\ i > 1 => rq.log[i].wait > rq.log[i - 1].wait
    ELSE rq.log[i].wait = 0
C40_Witness ==
  /\ rq.pc = "done" /\ Len(rq.log) = MAX_RETRIES /\ MAX_RETRIES >= 3
  /\ rq.log[1].wait = 15 /\ rq.log[2].wait = 30
  /\ rq.log[MAX_RETRIES].out \in RequestFaults /\ rq.log[MAX_RETRIES].wait = 0

====
